---- MODULE Spec2Model ----
(***************************************************************************)
(* Model of the local-network (LAN) backend of mcp-govee, createLanApi in  *)
(* src/api-lan.ts: the discovery scanner with its cache and single-flight  *)
(* token, and the per-call control channel (getDeviceState,                *)
(* controlDevice).                                                         *)
(*                                                                         *)
(* One action is one task of the Node event loop: a public call up to its  *)
(* first suspension, a socket callback, or a timer callback, each taken    *)
(* together with the promise reactions (microtasks) it triggers.           *)
(***************************************************************************)
EXTENDS Integers, Sequences, FiniteSets, TLC

\* ---------------------------------------------------------------- constants
MULTICAST_ADDR == "239.255.255.250"
SCAN_PORT == 4001
LISTEN_PORT == 4002
CONTROL_PORT == 4003
DISCOVERY_TIMEOUT_MS == 3000
CONTROL_TIMEOUT_MS == 3000
CACHE_TTL_MS == 5 * 60 * 1000

\* ------------------------------------------------------------------- bounds
\* number of public calls issued in one run
MaxCalls == 2
\* length of one idle period: just short of the cache lifetime
IdleStep == CACHE_TTL_MS - 1500
\* number of datagrams delivered in the single-scan specification
MaxReceived == 3

\* --------------------------------------------------------- JavaScript values
\* A parsed JSON object is a function from its keys; a missing key is absent
\* from the DOMAIN.  Undefined stands for the value of a missing string field.
Undefined == "undefined"
\* the error object a failed bind or send hands to its handler
TransportError == "transport error"
NoTimer == -1

Has(o, k) == k \in DOMAIN o

\* JSON.parse(msg.toString()): a datagram either carries a JSON value or makes
\* JSON.parse throw.
ParseThrows(m) == ~m.json

\* ------------------------------------------------- datagrams the network sends
ScanA1 == [json |-> TRUE, value |-> [msg |-> [cmd |-> "scan",
             data |-> [device |-> "AA:BB:CC:DD:EE:FF", ip |-> "10.0.0.5", sku |-> "H6160"]]]]
ScanA2 == [json |-> TRUE, value |-> [msg |-> [cmd |-> "scan",
             data |-> [device |-> "AA:BB:CC:DD:EE:FF", ip |-> "10.0.0.6", sku |-> "H6199",
                       bleVersionHard |-> "3.01.01", wifiVersionSoft |-> "1.02.03"]]]]
ScanB == [json |-> TRUE, value |-> [msg |-> [cmd |-> "scan",
             data |-> [device |-> "11:22:33:44:55:66", ip |-> "10.0.0.7", sku |-> "H6160"]]]]
ScanNoData == [json |-> TRUE, value |-> [msg |-> [cmd |-> "scan"]]]
ScanNoDevice == [json |-> TRUE, value |-> [msg |-> [cmd |-> "scan",
             data |-> [ip |-> "10.0.0.9", sku |-> "H6160"]]]]
\* a scan response that names the device but carries no address
ScanNoIp == [json |-> TRUE, value |-> [msg |-> [cmd |-> "scan",
             data |-> [device |-> "22:33:44:55:66:77", sku |-> "H6160"]]]]
NotJson == [json |-> FALSE, value |-> [text |-> "garbage"]]
NoMsg == [json |-> TRUE, value |-> [hello |-> "world"]]
StatusFull == [json |-> TRUE, value |-> [msg |-> [cmd |-> "devStatus",
             data |-> [onOff |-> 1, brightness |-> 0,
                       color |-> [r |-> 255, g |-> 128, b |-> 0], colorTemInKelvin |-> 0]]]]
StatusOff == [json |-> TRUE, value |-> [msg |-> [cmd |-> "devStatus",
             data |-> [onOff |-> 0, colorTemInKelvin |-> 4000]]]]
StatusNoData == [json |-> TRUE, value |-> [msg |-> [cmd |-> "devStatus"]]]

\* what may arrive on a socket while calls run concurrently
Datagrams == {ScanA1, ScanNoData, NotJson, NoMsg, StatusFull, StatusNoData}

\* what may arrive on the listener during one scan window
ScanDatagrams == {ScanA1, ScanA2, ScanB, ScanNoData, ScanNoDevice, ScanNoIp, NotJson, NoMsg,
                  StatusFull}

\* ------------------------------------------------------------ call arguments
Model == "H6160"
NoCmd == [name |-> "none", value |-> "none"]
TurnOn == [name |-> "turn", value |-> "on"]
Blink == [name |-> "blink", value |-> "on"]
\* the calls a client makes: operation, device argument, command argument
Requests ==
  {[op |-> "listDevices", device |-> Undefined, cmd |-> NoCmd],
   [op |-> "getDeviceState", device |-> "AA:BB:CC:DD:EE:FF", cmd |-> NoCmd],
   [op |-> "getDeviceState", device |-> "11:22:33:44:55:66", cmd |-> NoCmd],
   [op |-> "controlDevice", device |-> "AA:BB:CC:DD:EE:FF", cmd |-> TurnOn],
   [op |-> "controlDevice", device |-> "AA:BB:CC:DD:EE:FF", cmd |-> Blink]}

VARIABLES
  now,      \* Date.now()
  cache,    \* let cache: DeviceCache | undefined
  pending,  \* let pending: Promise | undefined; the id of the scan it wraps, 0 = undefined
  scans,    \* one record per doDiscover() invocation, in order of creation
  call,     \* one record per public call
  received, \* history: the datagrams delivered to the listener (single-scan specification)
  router,   \* the ApiRouter built at start-up: its default backend and the enabled backends
  stdout    \* the JSON-RPC responses written to process.stdout, in order

vars == <<now, cache, pending, scans, call, received, router, stdout>>

CallIds == 1..MaxCalls

BACKENDS == <<"v1", "v2", "lan">>

\* createApiRouter(config): one instance per enabled backend, named by the
\* backend; the cloud backends exist whenever there is an API key
createApiRouter(config) ==
  [defaultBackend |-> config.defaultBackend,
   enabled |-> {"v1", "v2"} \cup (IF config.lanEnabled THEN {"lan"} ELSE {})]

\* the router of a server started with the LAN backend enabled
LanRouter == createApiRouter([defaultBackend |-> "v1", lanEnabled |-> TRUE])

NoCache == [set |-> FALSE, devices |-> <<>>, expiry |-> 0]

NewCall == [op |-> "none", device |-> Undefined, cmd |-> NoCmd,
            status |-> "idle", error |-> "", result |-> <<>>,
            scan |-> 0, awaiting |-> FALSE, lan |-> <<>>,
            sock |-> "none", bindCb |-> FALSE, sendCb |-> FALSE, timer |-> NoTimer,
            sent |-> 0, sentTo |-> Undefined, sentPort |-> 0, sentMsg |-> <<>>,
            shared |-> {}]

\* doDiscover(): the state a scan has when `new Promise` returns: listener
\* created, handlers attached, listener.bind(LISTEN_PORT, cb) requested.
doDiscover == [status |-> "pending", error |-> "",
            listener |-> "open", bindCb |-> TRUE,
            sender |-> "none", sendCb |-> FALSE, timer |-> NoTimer,
            devices |-> <<>>, seen |-> {}, sent |-> 0]

Init ==
  /\ now = 0
  /\ cache = NoCache
  /\ pending = 0
  /\ scans = <<>>
  /\ call = [c \in CallIds |-> NewCall]
  /\ received = <<>>
  /\ router = LanRouter
  /\ stdout = <<>>

ScanIds == 1..Len(scans)

\* ------------------------------------------------------------------ promises
\* resolve()/reject() of an already settled promise do nothing.
Resolve(r, v) ==
  IF r.status = "pending" THEN [r EXCEPT !.status = "resolved", !.result = v] ELSE r

Reject(r, e) ==
  IF r.status = "pending" THEN [r EXCEPT !.status = "rejected", !.error = e] ELSE r

\* ------------------------------------------------------------- pure helpers
\* devices.find((dev) => dev.device === deviceId): index of the first match, 0 if none
FindIndex(devices, deviceId) ==
  IF \E i \in 1..Len(devices) : devices[i].device = deviceId
  THEN CHOOSE i \in 1..Len(devices) :
         /\ devices[i].device = deviceId
         /\ \A j \in 1..(i - 1) : devices[j].device # deviceId
  ELSE 0

\* findDevice throws when no device has the identifier
findDeviceThrows(devices, deviceId) == FindIndex(devices, deviceId) = 0

findDevice(devices, deviceId) == devices[FindIndex(devices, deviceId)]

\* lanDevices.map(...) of listDevices
MapDevices(devices) ==
  [i \in 1..Len(devices) |->
     [device |-> devices[i].device, model |-> devices[i].sku,
      deviceName |-> devices[i].device, controllable |-> TRUE, retrievable |-> FALSE,
      supportCmds |-> <<"turn", "brightness", "color", "colorTem">>]]

translateCmdThrows(cmd) == cmd.name \notin {"turn", "brightness", "color", "colorTem"}

\* a translation that sends the colour temperature as a command of its own
translateCmdSeparateTem(cmd) ==
  CASE cmd.name = "turn" ->
         [msg |-> [cmd |-> "turn", data |-> [value |-> IF cmd.value = "on" THEN 1 ELSE 0]]]
    [] cmd.name = "brightness" ->
         [msg |-> [cmd |-> "brightness", data |-> [value |-> cmd.value]]]
    [] cmd.name = "color" ->
         [msg |-> [cmd |-> "colorwc", data |-> [color |-> cmd.value, colorTemInKelvin |-> 0]]]
    [] cmd.name = "colorTem" ->
         [msg |-> [cmd |-> "colorTem", data |-> [value |-> cmd.value]]]

translateCmd(cmd) ==
  CASE cmd.name = "turn" ->
         [msg |-> [cmd |-> "turn", data |-> [value |-> IF cmd.value = "on" THEN 1 ELSE 0]]]
    [] cmd.name = "brightness" ->
         [msg |-> [cmd |-> "brightness", data |-> [value |-> cmd.value]]]
    [] cmd.name = "color" ->
         [msg |-> [cmd |-> "colorwc", data |-> [color |-> cmd.value, colorTemInKelvin |-> 0]]]
    [] cmd.name = "colorTem" ->
         [msg |-> [cmd |-> "colorwc",
                   data |-> [color |-> [r |-> 0, g |-> 0, b |-> 0], colorTemInKelvin |-> cmd.value]]]

\* ------------------------------------------------------------------ discover
\* the cache check without the expiry comparison
CacheValidIgnoresExpiry == cache.set

\* a cache check that takes an entry without devices for no entry
CacheValidNonEmpty == cache.set /\ now < cache.expiry /\ Len(cache.devices) > 0

\* a cache check that still takes the entry at the moment of its expiry
CacheValidAtExpiry == cache.set /\ now <= cache.expiry

CacheValid == cache.set /\ now < cache.expiry

\* discover() without the single-flight check: a second caller starts a second scan
DiscoverNoCoalesce ==
  IF CacheValid THEN "cached" ELSE "scan"

\* discover() without the cache check: every caller scans or joins
DiscoverIgnoresCache ==
  IF pending # 0 THEN "join" ELSE "scan"

\* discover(): which of its three returns a call takes
discover ==
  IF CacheValid THEN "cached"
  ELSE IF pending # 0 THEN "join"
  ELSE "scan"

\* the continuation of a call that addresses the first device of the list
\* once the requested one is known to be in it
AfterDiscoverFirstDevice(r, devices) ==
  LET r1 == [r EXCEPT !.awaiting = FALSE, !.lan = devices] IN
  CASE r.op = "listDevices" -> Resolve(r1, MapDevices(devices))
    [] r.op = "getDeviceState" ->
         IF findDeviceThrows(devices, r.device) THEN Reject(r1, "notfound")
         ELSE [r1 EXCEPT !.sock = "open", !.bindCb = TRUE]
    [] r.op = "controlDevice" ->
         IF findDeviceThrows(devices, r.device) THEN Reject(r1, "notfound")
         ELSE IF translateCmdThrows(r.cmd) THEN Reject(r1, "unknowncmd")
         ELSE [r1 EXCEPT !.sock = "open", !.sendCb = TRUE, !.sent = 1,
                         !.sentTo = devices[1].ip,
                         !.sentPort = CONTROL_PORT, !.sentMsg = translateCmd(r.cmd)]

\* the continuation of a call that uses the control channel without looking
\* the device up
AfterDiscoverNoLookup(r, devices) ==
  LET r1 == [r EXCEPT !.awaiting = FALSE, !.lan = devices] IN
  CASE r.op = "listDevices" -> Resolve(r1, MapDevices(devices))
    [] r.op = "getDeviceState" -> [r1 EXCEPT !.sock = "open", !.bindCb = TRUE]
    [] r.op = "controlDevice" ->
         IF translateCmdThrows(r.cmd) THEN Reject(r1, "unknowncmd")
         ELSE [r1 EXCEPT !.sock = "open", !.sendCb = TRUE, !.sent = 1,
                         !.sentPort = CONTROL_PORT, !.sentMsg = translateCmd(r.cmd)]

\* the continuation of a listDevices that hands the list of discover() itself
\* to its caller
AfterDiscoverReturnsList(r, devices) ==
  LET r1 == [r EXCEPT !.awaiting = FALSE, !.lan = devices] IN
  CASE r.op = "listDevices" -> Resolve([r1 EXCEPT !.shared = {"list", "entries"}], devices)
    [] r.op = "getDeviceState" ->
         IF findDeviceThrows(devices, r.device) THEN Reject(r1, "notfound")
         ELSE [r1 EXCEPT !.sock = "open", !.bindCb = TRUE]
    [] r.op = "controlDevice" ->
         IF findDeviceThrows(devices, r.device) THEN Reject(r1, "notfound")
         ELSE IF translateCmdThrows(r.cmd) THEN Reject(r1, "unknowncmd")
         ELSE [r1 EXCEPT !.sock = "open", !.sendCb = TRUE, !.sent = 1,
                         !.sentTo = findDevice(devices, r.device).ip,
                         !.sentPort = CONTROL_PORT, !.sentMsg = translateCmd(r.cmd)]

\* The code of listDevices / getDeviceState / controlDevice that runs once
\* `await discover()` has produced the list: up to the next suspension.
\* `lanDevices.map((d) => ({...}))` builds a new array of new objects, so the
\* result of listDevices shares no object with the list (`shared` stays empty).
AfterDiscover(r, devices) ==
  LET r1 == [r EXCEPT !.awaiting = FALSE, !.lan = devices] IN
  CASE r.op = "listDevices" -> Resolve(r1, MapDevices(devices))
    [] r.op = "getDeviceState" ->
         IF findDeviceThrows(devices, r.device) THEN Reject(r1, "notfound")
         ELSE [r1 EXCEPT !.sock = "open", !.bindCb = TRUE]
    [] r.op = "controlDevice" ->
         IF findDeviceThrows(devices, r.device) THEN Reject(r1, "notfound")
         ELSE IF translateCmdThrows(r.cmd) THEN Reject(r1, "unknowncmd")
         ELSE [r1 EXCEPT !.sock = "open", !.sendCb = TRUE, !.sent = 1,
                         !.sentTo = findDevice(devices, r.device).ip,
                         !.sentPort = CONTROL_PORT, !.sentMsg = translateCmd(r.cmd)]

\* `await discover()` rejected: the async function rejects with the same error
AfterDiscoverFailed(r, err) == Reject([r EXCEPT !.awaiting = FALSE], err)

\* A public call is issued.  Calls are numbered in the order they are issued.
Call(c, req) ==
  /\ call[c].op = "none"
  /\ \A b \in CallIds : b < c => call[b].op # "none"
  /\ LET r == [NewCall EXCEPT !.op = req.op, !.device = req.device, !.cmd = req.cmd,
                              !.status = "pending"]
     IN CASE discover = "cached" ->
               /\ call' = [call EXCEPT ![c] = AfterDiscover(r, cache.devices)]
               /\ UNCHANGED <<scans, pending>>
          [] discover = "join" ->
               /\ call' = [call EXCEPT ![c] = [r EXCEPT !.awaiting = TRUE, !.scan = pending]]
               /\ UNCHANGED <<scans, pending>>
          [] discover = "scan" ->
               /\ scans' = Append(scans, doDiscover)
               /\ pending' = Len(scans) + 1
               /\ call' = [call EXCEPT ![c] = [r EXCEPT !.awaiting = TRUE,
                                                        !.scan = Len(scans) + 1]]
  /\ UNCHANGED <<now, cache, received, router, stdout>>

\* ------------------------------------------------------------ scan callbacks
\* The reactions to the scan promise settling: `.finally` clears the token,
\* then every caller awaiting the scan continues.
ResumeResolved(s, devices) ==
  [c \in CallIds |-> IF call[c].awaiting /\ call[c].scan = s
                     THEN AfterDiscover(call[c], devices) ELSE call[c]]

ResumeRejected(s, err) ==
  [c \in CallIds |-> IF call[c].awaiting /\ call[c].scan = s
                     THEN AfterDiscoverFailed(call[c], err) ELSE call[c]]

\* cleanup() that closes the listener but leaves the collection timer armed
ScanCleanupKeepsTimer(sc) == [sc EXCEPT !.listener = "closed"]

\* cleanup() that cancels the timer but leaves the listener bound
ScanCleanupKeepsListener(sc) == [sc EXCEPT !.timer = NoTimer]

\* cleanup() of doDiscover
ScanCleanup(sc) == [sc EXCEPT !.timer = NoTimer, !.listener = "closed"]

\* a rejection that leaves the token in place (`.then` in place of `.finally`)
ScanFailKeepsToken(s, sc, err) ==
  IF sc.status = "pending"
  THEN /\ scans' = [scans EXCEPT ![s] = [sc EXCEPT !.timer = NoTimer, !.listener = "closed",
                                                   !.status = "rejected", !.error = err]]
       /\ pending' = pending
       /\ call' = [c \in CallIds |-> IF call[c].awaiting /\ call[c].scan = s
                                      THEN Reject([call[c] EXCEPT !.awaiting = FALSE], err)
                                      ELSE call[c]]
  ELSE /\ scans' = [scans EXCEPT ![s] = [sc EXCEPT !.timer = NoTimer, !.listener = "closed"]]
       /\ UNCHANGED <<pending, call>>

\* cleanup(); reject(err) of doDiscover, with the promise reactions
ScanFail(s, sc, err) ==
  IF sc.status = "pending"
  THEN /\ scans' = [scans EXCEPT ![s] = [ScanCleanup(sc) EXCEPT !.status = "rejected",
                                                                !.error = err]]
       /\ pending' = 0
       /\ call' = ResumeRejected(s, err)
  ELSE /\ scans' = [scans EXCEPT ![s] = ScanCleanup(sc)]
       /\ UNCHANGED <<pending, call>>

\* listener.bind(LISTEN_PORT, cb): the callback; sends the scan request and
\* arms the collection timer
ScanBound(s) ==
  /\ s \in ScanIds
  /\ scans[s].bindCb /\ scans[s].listener = "open"
  /\ scans' = [scans EXCEPT ![s] = [@ EXCEPT !.bindCb = FALSE, !.sender = "open",
                                             !.sendCb = TRUE, !.sent = @ + 1,
                                             !.timer = now + DISCOVERY_TIMEOUT_MS]]
  /\ UNCHANGED <<now, cache, pending, call, received, router, stdout>>

\* an error handler that also drops the cache entry
ScanListenerErrorClearsCache(s) ==
  /\ s \in ScanIds
  /\ scans[s].listener = "open"
  /\ ScanFail(s, [scans[s] EXCEPT !.bindCb = FALSE], TransportError)
  /\ cache' = NoCache
  /\ UNCHANGED <<now, received, router, stdout>>

\* listener.on('error'): the bind failed, or the bound socket reported an error
ScanListenerError(s) ==
  /\ s \in ScanIds
  /\ scans[s].listener = "open"
  /\ ScanFail(s, [scans[s] EXCEPT !.bindCb = FALSE], TransportError)
  /\ UNCHANGED <<now, cache, received, router, stdout>>

\* a message handler without the try/catch: a datagram that does not parse, or
\* has no msg object, ends the scan
ScanOnMessageThrows(sc, m) ==
  IF ParseThrows(m) \/ ~Has(m.value, "msg")
  THEN [sc EXCEPT !.status = "rejected", !.error = TransportError,
                  !.listener = "closed", !.timer = NoTimer]
  ELSE IF Has(m.value.msg, "cmd") /\ m.value.msg.cmd = "scan"
          /\ Has(m.value.msg, "data") /\ Has(m.value.msg.data, "device")
          /\ m.value.msg.data.device \notin sc.seen
       THEN LET d == m.value.msg.data
                Str(k) == IF Has(d, k) THEN d[k] ELSE Undefined
                StrOrEmpty(k) == IF Has(d, k) THEN d[k] ELSE ""
            IN [sc EXCEPT !.seen = @ \cup {d.device},
                          !.devices = Append(@,
                             [ip |-> Str("ip"), device |-> d.device, sku |-> Str("sku"),
                              bleVersionHard |-> StrOrEmpty("bleVersionHard"),
                              bleVersionSoft |-> StrOrEmpty("bleVersionSoft"),
                              wifiVersionHard |-> StrOrEmpty("wifiVersionHard"),
                              wifiVersionSoft |-> StrOrEmpty("wifiVersionSoft")])]
       ELSE sc

\* a message handler without the `seen` check: every response adds a device
ScanOnMessageNoDedup(sc, m) ==
  IF ParseThrows(m) THEN sc
  ELSE IF Has(m.value, "msg") /\ Has(m.value.msg, "cmd") /\ m.value.msg.cmd = "scan"
          /\ Has(m.value.msg, "data") /\ Has(m.value.msg.data, "device")
       THEN LET d == m.value.msg.data
                Str(k) == IF Has(d, k) THEN d[k] ELSE Undefined
                StrOrEmpty(k) == IF Has(d, k) THEN d[k] ELSE ""
            IN [sc EXCEPT !.seen = @ \cup {d.device},
                          !.devices = Append(@,
                             [ip |-> Str("ip"), device |-> d.device, sku |-> Str("sku"),
                              bleVersionHard |-> StrOrEmpty("bleVersionHard"),
                              bleVersionSoft |-> StrOrEmpty("bleVersionSoft"),
                              wifiVersionHard |-> StrOrEmpty("wifiVersionHard"),
                              wifiVersionSoft |-> StrOrEmpty("wifiVersionSoft")])]
       ELSE sc

\* a message handler in which a later response replaces the recorded device
ScanOnMessageLastWins(sc, m) ==
  IF ParseThrows(m) THEN sc
  ELSE IF Has(m.value, "msg") /\ Has(m.value.msg, "cmd") /\ m.value.msg.cmd = "scan"
          /\ Has(m.value.msg, "data") /\ Has(m.value.msg.data, "device")
       THEN LET d == m.value.msg.data
                Str(k) == IF Has(d, k) THEN d[k] ELSE Undefined
                StrOrEmpty(k) == IF Has(d, k) THEN d[k] ELSE ""
                dev == [ip |-> Str("ip"), device |-> d.device, sku |-> Str("sku"),
                        bleVersionHard |-> StrOrEmpty("bleVersionHard"),
                        bleVersionSoft |-> StrOrEmpty("bleVersionSoft"),
                        wifiVersionHard |-> StrOrEmpty("wifiVersionHard"),
                        wifiVersionSoft |-> StrOrEmpty("wifiVersionSoft")]
            IN IF d.device \in sc.seen
               THEN [sc EXCEPT !.devices = [i \in 1..Len(@) |->
                                              IF @[i].device = d.device THEN dev ELSE @[i]]]
               ELSE [sc EXCEPT !.seen = @ \cup {d.device}, !.devices = Append(@, dev)]
       ELSE sc

\* a message handler that ends the scan as soon as a device has answered
ScanOnMessageEarlyExit(sc, m) ==
  IF ParseThrows(m) THEN sc
  ELSE IF Has(m.value, "msg") /\ Has(m.value.msg, "cmd") /\ m.value.msg.cmd = "scan"
          /\ Has(m.value.msg, "data") /\ Has(m.value.msg.data, "device")
          /\ m.value.msg.data.device \notin sc.seen
       THEN LET d == m.value.msg.data
                Str(k) == IF Has(d, k) THEN d[k] ELSE Undefined
                StrOrEmpty(k) == IF Has(d, k) THEN d[k] ELSE ""
            IN [sc EXCEPT !.seen = @ \cup {d.device},
                          !.devices = Append(@,
                             [ip |-> Str("ip"), device |-> d.device, sku |-> Str("sku"),
                              bleVersionHard |-> StrOrEmpty("bleVersionHard"),
                              bleVersionSoft |-> StrOrEmpty("bleVersionSoft"),
                              wifiVersionHard |-> StrOrEmpty("wifiVersionHard"),
                              wifiVersionSoft |-> StrOrEmpty("wifiVersionSoft")]),
                          !.status = "resolved", !.listener = "closed", !.timer = NoTimer]
       ELSE sc

\* the message handler of the listener
ScanOnMessage(sc, m) ==
  IF ParseThrows(m) THEN sc
  ELSE IF Has(m.value, "msg") /\ Has(m.value.msg, "cmd") /\ m.value.msg.cmd = "scan"
          /\ Has(m.value.msg, "data")
       THEN LET d == m.value.msg.data
                deviceId == IF Has(d, "device") THEN d.device ELSE Undefined
                Str(k) == IF Has(d, k) THEN d[k] ELSE Undefined
                StrOrEmpty(k) == IF Has(d, k) THEN d[k] ELSE ""
            IN IF deviceId # Undefined /\ deviceId # "" /\ deviceId \notin sc.seen
               THEN [sc EXCEPT !.seen = @ \cup {deviceId},
                               !.devices = Append(@,
                                  [ip |-> Str("ip"), device |-> deviceId, sku |-> Str("sku"),
                                   bleVersionHard |-> StrOrEmpty("bleVersionHard"),
                                   bleVersionSoft |-> StrOrEmpty("bleVersionSoft"),
                                   wifiVersionHard |-> StrOrEmpty("wifiVersionHard"),
                                   wifiVersionSoft |-> StrOrEmpty("wifiVersionSoft")])]
               ELSE sc
       ELSE sc

\* a datagram arrives on the bound listener
ScanDeliver(s, m) ==
  /\ s \in ScanIds
  /\ scans[s].listener = "open" /\ ~scans[s].bindCb
  /\ scans' = [scans EXCEPT ![s] = ScanOnMessage(@, m)]
  /\ UNCHANGED <<now, cache, pending, call, router, stdout>>

ScanMessage(s, m) == ScanDeliver(s, m) /\ UNCHANGED received

\* a send callback that rejects without cleanup(): the collection timer stays
\* armed and the listener open
ScanSendDoneNoCleanup(s, err) ==
  /\ s \in ScanIds
  /\ scans[s].sendCb
  /\ LET sc == [scans[s] EXCEPT !.sendCb = FALSE, !.sender = "closed"]
     IN IF err /\ sc.status = "pending"
        THEN /\ scans' = [scans EXCEPT ![s] = [sc EXCEPT !.status = "rejected",
                                                         !.error = TransportError]]
             /\ pending' = 0
             /\ call' = ResumeRejected(s, TransportError)
        ELSE /\ scans' = [scans EXCEPT ![s] = sc]
             /\ UNCHANGED <<pending, call>>
  /\ UNCHANGED <<now, cache, received, router, stdout>>

\* the callback of sender.send
ScanSendDone(s, err) ==
  /\ s \in ScanIds
  /\ scans[s].sendCb
  /\ LET sc == [scans[s] EXCEPT !.sendCb = FALSE, !.sender = "closed"]
     IN IF err THEN ScanFail(s, sc, TransportError)
        ELSE /\ scans' = [scans EXCEPT ![s] = sc]
             /\ UNCHANGED <<pending, call>>
  /\ UNCHANGED <<now, cache, received, router, stdout>>

\* a timer callback that counts the lifetime of the entry from the start of
\* the scan
ScanTimeoutExpiryFromStart(s) ==
  /\ s \in ScanIds
  /\ scans[s].timer # NoTimer /\ now >= scans[s].timer
  /\ cache' = [set |-> TRUE, devices |-> scans[s].devices,
               expiry |-> scans[s].timer - DISCOVERY_TIMEOUT_MS + CACHE_TTL_MS]
  /\ IF scans[s].status = "pending"
     THEN /\ scans' = [scans EXCEPT ![s] = [ScanCleanup(@) EXCEPT !.status = "resolved"]]
          /\ pending' = 0
          /\ call' = ResumeResolved(s, scans[s].devices)
     ELSE /\ scans' = [scans EXCEPT ![s] = ScanCleanup(@)]
          /\ UNCHANGED <<pending, call>>
  /\ UNCHANGED <<now, received, router, stdout>>

\* the collection timer fires
ScanTimeout(s) ==
  /\ s \in ScanIds
  /\ scans[s].timer # NoTimer /\ now >= scans[s].timer
  /\ cache' = [set |-> TRUE, devices |-> scans[s].devices, expiry |-> now + CACHE_TTL_MS]
  /\ IF scans[s].status = "pending"
     THEN /\ scans' = [scans EXCEPT ![s] = [ScanCleanup(@) EXCEPT !.status = "resolved"]]
          /\ pending' = 0
          /\ call' = ResumeResolved(s, scans[s].devices)
     ELSE /\ scans' = [scans EXCEPT ![s] = ScanCleanup(@)]
          /\ UNCHANGED <<pending, call>>
  /\ UNCHANGED <<now, received, router, stdout>>

\* --------------------------------------------------- getDeviceState callbacks
\* cleanup() of getDeviceState (sock.close() of a closed socket throws and is caught)
QueryCleanup(r) == [r EXCEPT !.timer = NoTimer, !.sock = "closed"]

\* the properties list built from the data object of a devStatus response
StatusProperties(status) ==
  (IF Has(status, "onOff")
     THEN <<[powerState |-> IF status.onOff = 1 THEN "on" ELSE "off"]>> ELSE <<>>)
  \o (IF Has(status, "brightness") THEN <<[brightness |-> status.brightness]>> ELSE <<>>)
  \o (IF Has(status, "color") THEN <<[color |-> status.color]>> ELSE <<>>)
  \o (IF Has(status, "colorTemInKelvin") /\ status.colorTemInKelvin # 0
        THEN <<[colorTem |-> status.colorTemInKelvin]>> ELSE <<>>)

\* a message handler that takes any datagram carrying a msg object for the
\* status response
QueryOnMessageAnyTag(r, m) ==
  IF ParseThrows(m) THEN r
  ELSE IF Has(m.value, "msg")
       THEN IF Has(m.value.msg, "data")
            THEN Resolve(QueryCleanup(r),
                         [device |-> r.device, model |-> Model,
                          properties |-> StatusProperties(m.value.msg.data)])
            ELSE QueryCleanup(r)
       ELSE r

\* the message handler of the query socket.  For a devStatus datagram cleanup()
\* runs first; reading a field of a missing data object then throws inside the
\* try block, and the catch swallows it before resolve() is reached.
QueryOnMessage(r, m) ==
  IF ParseThrows(m) THEN r
  ELSE IF Has(m.value, "msg") /\ Has(m.value.msg, "cmd") /\ m.value.msg.cmd = "devStatus"
       THEN IF Has(m.value.msg, "data")
            THEN Resolve(QueryCleanup(r),
                         [device |-> r.device, model |-> Model,
                          properties |-> StatusProperties(m.value.msg.data)])
            ELSE QueryCleanup(r)
       ELSE r

\* sock.bind(cb): the callback; sends the status request and arms the timer
QueryBound(c) ==
  /\ call[c].op = "getDeviceState" /\ call[c].bindCb /\ call[c].sock = "open"
  /\ call' = [call EXCEPT ![c] = [@ EXCEPT !.bindCb = FALSE, !.sendCb = TRUE, !.sent = @ + 1,
                                          !.sentTo = findDevice(call[c].lan, call[c].device).ip,
                                          !.sentPort = CONTROL_PORT,
                                          !.sentMsg = [msg |-> [cmd |-> "devStatus"]],
                                          !.timer = now + CONTROL_TIMEOUT_MS]]
  /\ UNCHANGED <<now, cache, pending, scans, received, router, stdout>>

\* sock.on('error'): the bind failed (its callback then never runs), or the
\* bound socket reported an error
QuerySockError(c) ==
  /\ call[c].op = "getDeviceState" /\ call[c].sock = "open"
  /\ call' = [call EXCEPT ![c] = Reject(QueryCleanup([@ EXCEPT !.bindCb = FALSE]), TransportError)]
  /\ UNCHANGED <<now, cache, pending, scans, received, router, stdout>>

\* one socket for all state queries: a datagram is handled by every query
\* that is waiting
QueryMessageShared(c, m) ==
  /\ call[c].op = "getDeviceState" /\ call[c].sock = "open" /\ ~call[c].bindCb
  /\ call' = [d \in CallIds |->
                IF call[d].op = "getDeviceState" /\ call[d].sock = "open" /\ ~call[d].bindCb
                THEN QueryOnMessage(call[d], m) ELSE call[d]]
  /\ UNCHANGED <<now, cache, pending, scans, received, router, stdout>>

\* a datagram arrives on the bound query socket
QueryMessage(c, m) ==
  /\ call[c].op = "getDeviceState" /\ call[c].sock = "open" /\ ~call[c].bindCb
  /\ call' = [call EXCEPT ![c] = QueryOnMessage(@, m)]
  /\ UNCHANGED <<now, cache, pending, scans, received, router, stdout>>

\* the callback of sock.send in getDeviceState
QuerySendDone(c, err) ==
  /\ call[c].op = "getDeviceState" /\ call[c].sendCb
  /\ call' = [call EXCEPT ![c] =
                IF err THEN Reject(QueryCleanup([@ EXCEPT !.sendCb = FALSE]), TransportError)
                ELSE [@ EXCEPT !.sendCb = FALSE]]
  /\ UNCHANGED <<now, cache, pending, scans, received, router, stdout>>

\* a timer callback that rejects without releasing the socket
QueryTimeoutLeaksSocket(c) ==
  /\ call[c].op = "getDeviceState"
  /\ call[c].timer # NoTimer /\ now >= call[c].timer
  /\ call' = [call EXCEPT ![c] = Reject([@ EXCEPT !.timer = NoTimer], "timeout")]
  /\ UNCHANGED <<now, cache, pending, scans, received, router, stdout>>

\* the response timer fires
QueryTimeout(c) ==
  /\ call[c].op = "getDeviceState"
  /\ call[c].timer # NoTimer /\ now >= call[c].timer
  /\ call' = [call EXCEPT ![c] = Reject(QueryCleanup(@), "timeout")]
  /\ UNCHANGED <<now, cache, pending, scans, received, router, stdout>>

\* ---------------------------------------------------- controlDevice callbacks
\* a send callback that releases the socket only when the send succeeded
ControlSendDoneLeaksOnError(c, err) ==
  /\ call[c].op = "controlDevice" /\ call[c].sendCb
  /\ LET r == [call[c] EXCEPT !.sendCb = FALSE]
     IN call' = [call EXCEPT ![c] = IF err THEN Reject(r, TransportError)
                                    ELSE Resolve([r EXCEPT !.sock = "closed"], <<>>)]
  /\ UNCHANGED <<now, cache, pending, scans, received, router, stdout>>

\* the callback of sock.send in controlDevice
ControlSendDone(c, err) ==
  /\ call[c].op = "controlDevice" /\ call[c].sendCb
  /\ LET r == [call[c] EXCEPT !.sendCb = FALSE, !.sock = "closed"]
     IN call' = [call EXCEPT ![c] = IF err THEN Reject(r, TransportError) ELSE Resolve(r, <<>>)]
  /\ UNCHANGED <<now, cache, pending, scans, received, router, stdout>>

\* sock.on('error') in controlDevice: the implicit bind failed; the queued send
\* is dropped with it and its callback never runs
ControlSockError(c) ==
  /\ call[c].op = "controlDevice" /\ call[c].sock = "open"
  /\ call' = [call EXCEPT ![c] = Reject([@ EXCEPT !.sendCb = FALSE, !.sock = "closed"],
                                        TransportError)]
  /\ UNCHANGED <<now, cache, pending, scans, received, router, stdout>>

\* --------------------------------------------------------------------- time
Deadlines ==
  ({scans[s].timer : s \in ScanIds} \cup {call[c].timer : c \in CallIds}) \ {NoTimer}

\* a bind or send callback is outstanding
CallbackDue ==
  \/ \E s \in ScanIds : scans[s].bindCb \/ scans[s].sendCb
  \/ \E c \in CallIds : call[c].bindCb \/ call[c].sendCb

\* time passes until the earliest armed timer is due; socket callbacks are
\* delivered well within the 3 s of a timer
Tick ==
  /\ Deadlines # {}
  /\ ~CallbackDue
  /\ \A d \in Deadlines : d > now
  /\ now' = CHOOSE d \in Deadlines : \A e \in Deadlines : d <= e
  /\ UNCHANGED <<cache, pending, scans, call, received, router, stdout>>

\* no callback and no timer is outstanding
Quiescent == ~CallbackDue /\ Deadlines = {}

\* A long period passes while nothing is outstanding.  The program reads the
\* clock only to compare it with the expiry of a cache entry and to set
\* deadlines relative to it, so idle time is taken only while an entry is fresh.
Idle ==
  /\ cache.set /\ now < cache.expiry
  /\ Quiescent
  /\ now' = now + IdleStep
  /\ UNCHANGED <<cache, pending, scans, call, received, router, stdout>>

Next ==
  \/ \E c \in CallIds, req \in Requests : Call(c, req)
  \/ \E s \in ScanIds : ScanBound(s)
  \/ \E s \in ScanIds : ScanListenerError(s)
  \/ \E s \in ScanIds, m \in Datagrams : ScanMessage(s, m)
  \/ \E s \in ScanIds, err \in BOOLEAN : ScanSendDone(s, err)
  \/ \E s \in ScanIds : ScanTimeout(s)
  \/ \E c \in CallIds : QueryBound(c)
  \/ \E c \in CallIds : QuerySockError(c)
  \/ \E c \in CallIds, m \in Datagrams : QueryMessage(c, m)
  \/ \E c \in CallIds, err \in BOOLEAN : QuerySendDone(c, err)
  \/ \E c \in CallIds : QueryTimeout(c)
  \/ \E c \in CallIds, err \in BOOLEAN : ControlSendDone(c, err)
  \/ \E c \in CallIds : ControlSockError(c)
  \/ Tick
  \/ Idle

Spec == Init /\ [][Next]_vars

\* The event loop runs every callback that is ready, and timers fire once
\* their deadline is reached; the arrival of datagrams and of calls is not
\* guaranteed.
Fairness ==
  /\ \A s \in 1..MaxCalls :
       /\ WF_vars(ScanBound(s))
       /\ WF_vars(\E err \in BOOLEAN : ScanSendDone(s, err))
       /\ WF_vars(ScanTimeout(s))
  /\ \A c \in CallIds :
       /\ WF_vars(QueryBound(c))
       /\ WF_vars(\E err \in BOOLEAN : QuerySendDone(c, err))
       /\ WF_vars(QueryTimeout(c))
       /\ WF_vars(\E err \in BOOLEAN : ControlSendDone(c, err))
  /\ WF_vars(Tick)

FairSpec == Spec /\ Fairness

\* ------------------------------------------------ one scan window in detail
\* A listDevices call has started a scan and the listener is bound; any
\* sequence of datagrams arrives before the collection timer fires.
ScanInit ==
  /\ now = 0
  /\ cache = NoCache
  /\ pending = 1
  /\ scans = <<[doDiscover EXCEPT !.bindCb = FALSE, !.sender = "closed", !.sent = 1,
                                  !.timer = DISCOVERY_TIMEOUT_MS]>>
  /\ call = [c \in CallIds |->
               IF c = 1 THEN [NewCall EXCEPT !.op = "listDevices", !.status = "pending",
                                             !.awaiting = TRUE, !.scan = 1]
               ELSE NewCall]
  /\ received = <<>>
  /\ router = LanRouter
  /\ stdout = <<>>

Receive(m) ==
  /\ Len(received) < MaxReceived
  /\ ScanDeliver(1, m)
  /\ received' = Append(received, m)

ScanNext ==
  \/ \E m \in ScanDatagrams : Receive(m)
  \/ Tick
  \/ ScanTimeout(1)

ScanSpec == ScanInit /\ [][ScanNext]_vars

\* ------------------------------------------- commands against a fresh cache
\* A scan has resolved with two devices and its cache entry is fresh; control
\* commands of every kind are issued against it.
TurnOff == [name |-> "turn", value |-> "off"]
Brightness75 == [name |-> "brightness", value |-> 75]
Color == [name |-> "color", value |-> [r |-> 255, g |-> 0, b |-> 128]]
ColorTem == [name |-> "colorTem", value |-> 4000]

\* the commands a client issues (a sequence: their values are of different types)
Commands == <<TurnOn, TurnOff, Brightness75, Color, ColorTem, Blink>>

\* the device arguments: two discovered devices and one that was never seen
CmdDevices == {"AA:BB:CC:DD:EE:FF", "11:22:33:44:55:66", "00:00:00:00:00:00"}

\* the scan that filled the cache: it received ScanA1 and ScanB and resolved
CmdScan ==
  [ScanCleanup(ScanOnMessage(ScanOnMessage(
      [doDiscover EXCEPT !.bindCb = FALSE, !.sender = "closed", !.sent = 1], ScanA1), ScanB))
   EXCEPT !.status = "resolved"]

CmdInit ==
  /\ now = DISCOVERY_TIMEOUT_MS
  /\ cache = [set |-> TRUE, devices |-> CmdScan.devices,
              expiry |-> DISCOVERY_TIMEOUT_MS + CACHE_TTL_MS]
  /\ pending = 0
  /\ scans = <<CmdScan>>
  /\ call = [c \in CallIds |-> NewCall]
  /\ received = <<>>
  /\ router = LanRouter
  /\ stdout = <<>>

CmdNext ==
  \/ \E c \in CallIds, d \in CmdDevices, k \in 1..Len(Commands) :
       Call(c, [op |-> "controlDevice", device |-> d, cmd |-> Commands[k]])
  \/ \E c \in CallIds, err \in BOOLEAN : ControlSendDone(c, err)
  \/ \E c \in CallIds : ControlSockError(c)

CmdSpec == CmdInit /\ [][CmdNext]_vars

\* ------------------------------------------------- calls around the expiry
\* The program is idle for d milliseconds, up to the last millisecond before
\* the cache entry expires or beyond it.
Elapse(d) ==
  /\ ~CallbackDue /\ Deadlines = {}
  /\ cache.set /\ now <= cache.expiry /\ now + d >= cache.expiry - 1
  /\ now' = now + d
  /\ UNCHANGED <<cache, pending, scans, call, received, router, stdout>>

\* calls issued shortly before, at and after the expiry of a cache entry
ExpiryNext ==
  \/ \E c \in CallIds :
       \/ Call(c, [op |-> "listDevices", device |-> Undefined, cmd |-> NoCmd])
       \/ Call(c, [op |-> "controlDevice", device |-> "AA:BB:CC:DD:EE:FF", cmd |-> TurnOn])
  \/ \E d \in {CACHE_TTL_MS - 1, 1} : Elapse(d)
  \/ \E s \in ScanIds : ScanBound(s)
  \/ \E s \in ScanIds : ScanListenerError(s)
  \/ \E s \in ScanIds : ScanMessage(s, ScanA1)
  \/ \E s \in ScanIds, err \in BOOLEAN : ScanSendDone(s, err)
  \/ \E s \in ScanIds : ScanTimeout(s)
  \/ \E c \in CallIds, err \in BOOLEAN : ControlSendDone(c, err)
  \/ Tick

ExpirySpec == CmdInit /\ [][ExpiryNext]_vars

\* ---------------------------------------- callers changing what they received
\* What a caller does to a list that listDevices returned to it: it empties
\* the array (`list.length = 0`) or gives its first entry another address
\* (`list[0].ip = ...`).
Change(list, kind) ==
  IF kind = "clear" THEN <<>>
  ELSE IF Len(list) = 0 THEN list
  ELSE [list EXCEPT ![1] = [k \in DOMAIN @ \cup {"ip"} |->
                              IF k = "ip" THEN "10.6.6.6" ELSE @[k]]]

\* The caller of call c changes the list it received.  `shared` of the call
\* names the objects of that list that are objects of the backend as well
\* (the array, its entries); a change to a shared object is seen by every
\* holder of it: the cache entry, the scan that collected the list, and the
\* entries the running calls have looked up.
CallerChanges(c, kind) ==
  /\ call[c].op = "listDevices" /\ call[c].status = "resolved"
  /\ LET Seen(devs) ==
           IF kind = "clear"
             THEN (IF "list" \in call[c].shared THEN <<>> ELSE devs)
           ELSE (IF "entries" \in call[c].shared THEN Change(devs, kind) ELSE devs)
         SeenEntry(devs) ==
           IF kind # "clear" /\ "entries" \in call[c].shared THEN Change(devs, kind) ELSE devs
     IN /\ call' = [d \in CallIds |->
                      IF d = c THEN [call[d] EXCEPT !.result = Change(@, kind)]
                      ELSE [call[d] EXCEPT !.lan = SeenEntry(@)]]
        /\ cache' = [cache EXCEPT !.devices = Seen(@)]
        /\ scans' = [s \in ScanIds |->
                       IF scans[s].devices = cache.devices
                       THEN [scans[s] EXCEPT !.devices = Seen(@)] ELSE scans[s]]
  /\ UNCHANGED <<now, pending, received, router, stdout>>

\* calls of every kind against a fresh cache entry, with callers that change
\* the lists they received
CopyNext ==
  \/ \E c \in CallIds, req \in Requests : Call(c, req)
  \/ \E c \in CallIds, kind \in {"clear", "readdress"} : CallerChanges(c, kind)
  \/ \E c \in CallIds : QueryBound(c)
  \/ \E c \in CallIds : QuerySockError(c)
  \/ \E c \in CallIds, m \in Datagrams : QueryMessage(c, m)
  \/ \E c \in CallIds, err \in BOOLEAN : QuerySendDone(c, err)
  \/ \E c \in CallIds : QueryTimeout(c)
  \/ \E c \in CallIds, err \in BOOLEAN : ControlSendDone(c, err)
  \/ \E c \in CallIds : ControlSockError(c)
  \/ Tick

CopySpec == CmdInit /\ [][CopyNext]_vars

\* ------------------------------------------------------- the cloud backends
\* createApi (v1, src/api.ts) and createV2Api (v2, src/api-v2.ts): a call is
\* one HTTP request; `call` holds one record per call here as well.
CAP_ON_OFF == "devices.capabilities.on_off"
CAP_RANGE == "devices.capabilities.range"
CAP_COLOR == "devices.capabilities.color_setting"

\* JavaScript's 32-bit operators on the operands that occur here; no operand
\* reaches 2^31, so no result wraps
ShiftLeft(x, n) == x * 2^n

ShiftRight(x, n) == x \div 2^n

RECURSIVE BitOr(_, _)
BitOr(x, y) ==
  IF x = 0 THEN y
  ELSE IF y = 0 THEN x
  ELSE (IF x % 2 = 1 \/ y % 2 = 1 THEN 1 ELSE 0) + 2 * BitOr(x \div 2, y \div 2)

RECURSIVE BitAnd(_, _)
BitAnd(x, y) ==
  IF x = 0 \/ y = 0 THEN 0
  ELSE (IF x % 2 = 1 /\ y % 2 = 1 THEN 1 ELSE 0) + 2 * BitAnd(x \div 2, y \div 2)

V2_translateCmdThrows(cmd) == cmd.name \notin {"turn", "brightness", "color", "colorTem"}

\* a translation that shifts the green component by 16 as well
V2_translateCmdGreenShift(cmd) ==
  CASE cmd.name = "turn" ->
         [type |-> CAP_ON_OFF, instance |-> "powerSwitch",
          value |-> IF cmd.value = "on" THEN 1 ELSE 0]
    [] cmd.name = "brightness" ->
         [type |-> CAP_RANGE, instance |-> "brightness", value |-> cmd.value]
    [] cmd.name = "color" ->
         [type |-> CAP_COLOR, instance |-> "colorRgb",
          value |-> BitOr(BitOr(ShiftLeft(cmd.value.r, 16), ShiftLeft(cmd.value.g, 16)),
                          cmd.value.b)]
    [] cmd.name = "colorTem" ->
         [type |-> CAP_COLOR, instance |-> "colorTemperatureK", value |-> cmd.value]

\* translateCmd of the v2 backend
V2_translateCmd(cmd) ==
  CASE cmd.name = "turn" ->
         [type |-> CAP_ON_OFF, instance |-> "powerSwitch",
          value |-> IF cmd.value = "on" THEN 1 ELSE 0]
    [] cmd.name = "brightness" ->
         [type |-> CAP_RANGE, instance |-> "brightness", value |-> cmd.value]
    [] cmd.name = "color" ->
         [type |-> CAP_COLOR, instance |-> "colorRgb",
          value |-> BitOr(BitOr(ShiftLeft(cmd.value.r, 16), ShiftLeft(cmd.value.g, 8)),
                          cmd.value.b)]
    [] cmd.name = "colorTem" ->
         [type |-> CAP_COLOR, instance |-> "colorTemperatureK", value |-> cmd.value]

\* a decoder that does not mask the green component
RECURSIVE V2_PropertiesNoMask(_)
V2_PropertiesNoMask(capabilities) ==
  IF capabilities = <<>> THEN <<>>
  ELSE LET cap == Head(capabilities)
           rest == V2_PropertiesNoMask(Tail(capabilities))
       IN IF cap.type = CAP_ON_OFF
          THEN <<[powerState |-> IF cap.state = 1 THEN "on" ELSE "off"]>> \o rest
          ELSE IF cap.type = CAP_RANGE /\ cap.instance = "brightness"
          THEN <<[brightness |-> cap.state]>> \o rest
          ELSE IF cap.type = CAP_COLOR /\ cap.instance = "colorRgb"
          THEN <<[color |-> [r |-> BitAnd(ShiftRight(cap.state, 16), 255),
                             g |-> ShiftRight(cap.state, 8),
                             b |-> BitAnd(cap.state, 255)]]>> \o rest
          ELSE IF cap.type = CAP_COLOR /\ cap.instance = "colorTemperatureK"
          THEN <<[colorTem |-> cap.state]>> \o rest
          ELSE rest

\* the loop of the v2 getDeviceState over the capabilities of a response
RECURSIVE V2_Properties(_)
V2_Properties(capabilities) ==
  IF capabilities = <<>> THEN <<>>
  ELSE LET cap == Head(capabilities)
           rest == V2_Properties(Tail(capabilities))
       IN IF cap.type = CAP_ON_OFF
          THEN <<[powerState |-> IF cap.state = 1 THEN "on" ELSE "off"]>> \o rest
          ELSE IF cap.type = CAP_RANGE /\ cap.instance = "brightness"
          THEN <<[brightness |-> cap.state]>> \o rest
          ELSE IF cap.type = CAP_COLOR /\ cap.instance = "colorRgb"
          THEN <<[color |-> [r |-> BitAnd(ShiftRight(cap.state, 16), 255),
                             g |-> BitAnd(ShiftRight(cap.state, 8), 255),
                             b |-> BitAnd(cap.state, 255)]]>> \o rest
          ELSE IF cap.type = CAP_COLOR /\ cap.instance = "colorTemperatureK"
          THEN <<[colorTem |-> cap.state]>> \o rest
          ELSE rest

\* colour components a client passes
ColorLevels == {0, 1, 15, 16, 127, 128, 255}

NewRemoteCall == [backend |-> "none", op |-> "none", device |-> Undefined, model |-> Undefined,
                  cmd |-> NoCmd, status |-> "idle", error |-> "", result |-> <<>>,
                  sent |-> 0, method |-> "", path |-> "", body |-> <<>>]

RemoteInit ==
  /\ now = 0
  /\ cache = NoCache
  /\ pending = 0
  /\ scans = <<>>
  /\ call = [c \in CallIds |-> NewRemoteCall]
  /\ received = <<>>
  /\ router = LanRouter
  /\ stdout = <<>>

\* request(path, method, body) up to the await of fetch
Request(r, method, path, body) ==
  [r EXCEPT !.sent = @ + 1, !.method = method, !.path = path, !.body = body]

\* v2Post(path, device, model, extra)
v2Post(r, path, extra) ==
  Request(r, "POST", path,
          [requestId |-> "uuid",
           payload |-> [sku |-> r.model, device |-> r.device] @@ extra])

\* controlDevice of the v1 and of the v2 backend, up to the await of fetch
RemoteControl(c, backend, cmd) ==
  /\ call[c].op = "none"
  /\ LET r == [NewRemoteCall EXCEPT !.backend = backend, !.op = "controlDevice",
                                    !.device = "AA:BB:CC:DD:EE:FF", !.model = Model,
                                    !.cmd = cmd, !.status = "pending"]
     IN call' = [call EXCEPT ![c] =
          IF backend = "v1"
          THEN Request(r, "PUT", "/devices/control",
                       [device |-> r.device, model |-> r.model, cmd |-> cmd])
          ELSE IF V2_translateCmdThrows(cmd) THEN Reject(r, "unknowncmd")
          ELSE v2Post(r, "/device/control", [capability |-> V2_translateCmd(cmd)])]
  /\ UNCHANGED <<now, cache, pending, scans, received, router, stdout>>

\* getDeviceState of the v2 backend, up to the await of fetch
RemoteState(c) ==
  /\ call[c].op = "none"
  /\ call' = [call EXCEPT ![c] =
       v2Post([NewRemoteCall EXCEPT !.backend = "v2", !.op = "getDeviceState",
                                    !.device = "AA:BB:CC:DD:EE:FF", !.model = Model,
                                    !.status = "pending"],
              "/device/state", <<>>)]
  /\ UNCHANGED <<now, cache, pending, scans, received, router, stdout>>

\* The colour the cloud reports for the device: the packed integer of the
\* last colour command it accepted, 0 before any.
CloudColor ==
  IF /\ call[1].backend = "v2" /\ call[1].op = "controlDevice"
     /\ call[1].status = "resolved" /\ call[1].cmd.name = "color"
  THEN call[1].body.payload.capability.value
  ELSE 0

\* the capabilities of a state response
CloudCapabilities ==
  <<[type |-> CAP_ON_OFF, instance |-> "powerSwitch", state |-> 1],
    [type |-> CAP_COLOR, instance |-> "colorRgb", state |-> CloudColor]>>

\* fetch settles: `ok` is res.ok
RemoteResponse(c, ok) ==
  /\ call[c].status = "pending" /\ call[c].sent = 1
  /\ call' = [call EXCEPT ![c] =
       IF ~ok THEN Reject(@, "api error")
       ELSE IF @.op = "getDeviceState"
       THEN Resolve(@, [device |-> @.device, model |-> @.model,
                        properties |-> V2_Properties(CloudCapabilities)])
       ELSE Resolve(@, <<>>)]
  /\ UNCHANGED <<now, cache, pending, scans, received, router, stdout>>

\* one control call, then one state query
RemoteNext ==
  \/ \E backend \in {"v1", "v2"}, k \in 1..Len(Commands) :
       RemoteControl(1, backend, Commands[k])
  \/ \E backend \in {"v1", "v2"}, r, g, b \in ColorLevels :
       RemoteControl(1, backend, [name |-> "color", value |-> [r |-> r, g |-> g, b |-> b]])
  \/ call[1].op # "none" /\ RemoteState(2)
  \/ \E c \in {1, 2}, ok \in BOOLEAN : RemoteResponse(c, ok)

RemoteSpec == RemoteInit /\ [][RemoteNext]_vars

\* ------------------------------------------------------- the backend router
isValidBackend(value) == \E i \in 1..Len(BACKENDS) : BACKENDS[i] = value

\* router.get(backend): the name of the backend whose instance is returned,
\* or the error thrown.  An unset name stands for the configured default.
RouterGet(backend) ==
  IF backend = Undefined THEN [ok |-> TRUE, api |-> router.defaultBackend, error |-> ""]
  ELSE IF backend \in router.enabled THEN [ok |-> TRUE, api |-> backend, error |-> ""]
  ELSE [ok |-> FALSE, api |-> Undefined, error |-> "disabled"]

\* a parseBackend that lets every name through
parseBackendAcceptsAny(arg) ==
  IF arg = Undefined \/ arg = "" THEN [ok |-> TRUE, backend |-> Undefined]
  ELSE [ok |-> TRUE, backend |-> arg]

\* a parseBackend that drops the argument
parseBackendDropsArgument(arg) == [ok |-> TRUE, backend |-> Undefined]

\* parseBackend(args) of the handlers: a missing or empty argument is unset, a
\* name outside BACKENDS is answered with a failure result
parseBackend(arg) ==
  IF arg = Undefined \/ arg = "" THEN [ok |-> TRUE, backend |-> Undefined]
  ELSE IF ~isValidBackend(arg) THEN [ok |-> FALSE, backend |-> arg]
  ELSE [ok |-> TRUE, backend |-> arg]

\* the backend arguments of tool calls
BackendArgs == {Undefined, "", "v1", "v2", "lan", "v3"}

NewToolCall == [op |-> "none", backend |-> Undefined, status |-> "idle",
                api |-> Undefined, error |-> ""]

\* the server starts with any default backend, with or without the LAN backend
RouterInit ==
  /\ now = 0
  /\ cache = NoCache
  /\ pending = 0
  /\ scans = <<>>
  /\ call = [c \in CallIds |-> NewToolCall]
  /\ stdout = <<>>
  /\ received = <<>>
  /\ \E i \in 1..Len(BACKENDS), lanEnabled \in BOOLEAN :
       router = createApiRouter([defaultBackend |-> BACKENDS[i], lanEnabled |-> lanEnabled])

\* a tool handler up to `const api = router.get(backend)`
HandlerResolve(c, arg) ==
  /\ call[c].op = "none"
  /\ \A b \in CallIds : b < c => call[b].op # "none"
  /\ LET r == [NewToolCall EXCEPT !.op = "resolve", !.backend = arg]
         parsed == parseBackend(arg)
         got == RouterGet(parsed.backend)
     IN call' = [call EXCEPT ![c] =
          IF ~parsed.ok THEN [r EXCEPT !.status = "failed", !.error = "invalid"]
          ELSE IF ~got.ok THEN [r EXCEPT !.status = "rejected", !.error = got.error]
          ELSE [r EXCEPT !.status = "resolved", !.api = got.api]]
  /\ UNCHANGED <<now, cache, pending, scans, received, router, stdout>>

RouterNext == \E c \in CallIds, arg \in BackendArgs : HandlerResolve(c, arg)

RouterSpec == RouterInit /\ [][RouterNext]_vars

\* ---------------------------------------------------------- the tool handlers
\* createHandlers(router) of src/handlers.ts.  A handler runs from its call to
\* its first `await` of a backend method, and from the settling of that method
\* to the next `await` or to its own return; `call` holds one record per
\* handler call here.
CAP_SCENE == "devices.capabilities.dynamic_scene"

\* a string argument is missing or empty: `!value`
Falsy(value) == value = Undefined \/ value = ""

\* the numeric arguments of a tool call: absent, a value that is not an
\* integer (50.5, "50"), or an integer
Missing == [kind |-> "missing", n |-> 0]
NonInteger == [kind |-> "noninteger", n |-> 0]
Integer(n) == [kind |-> "integer", n |-> n]

\* the values a scene carries and the values activateScene receives
JsUndefined == [t |-> "undefined", s |-> "", id |-> 0, paramId |-> 0, n |-> 0]
JsNumber(n) == [t |-> "number", s |-> "", id |-> 0, paramId |-> 0, n |-> n]
SceneParams(id, paramId) == [t |-> "object", s |-> "", id |-> id, paramId |-> paramId, n |-> 0]

ok(text) == [ok |-> TRUE, text |-> text, message |-> <<>>]
fail(message) == [ok |-> FALSE, text |-> <<>>, message |-> message]

NoArgs == [device_id |-> Undefined, model |-> Undefined, backend |-> Undefined,
           state |-> Undefined, brightness |-> Missing,
           r |-> Missing, g |-> Missing, b |-> Missing, temperature |-> Missing,
           scene_name |-> Undefined, scene_type |-> Undefined]

\* the id of a request that has none (a notification)
NullId == 0

\* line, id, method: the request line that made the call (the server only);
\* gets, calls, outcomes: the names passed to router.get, the backend methods
\* invoked, and how each of them settled ("resolved" or the error)
NewHandlerCall == [line |-> "none", id |-> NullId, method |-> "none",
                   tool |-> "none", args |-> NoArgs,
                   status |-> "idle", awaiting |-> "", gets |-> <<>>, api |-> Undefined,
                   calls |-> <<>>, outcomes |-> <<>>, scenes |-> <<>>, posted |-> [t |-> "undefined", type |-> "", instance |-> "",
                              value |-> JsUndefined],
                   result |-> fail(<<>>), error |-> ""]

\* the optional methods of a backend
SceneMethods == {"listScenes", "listDiyScenes", "activateScene"}

\* `api.method` is defined on the instance router.get(name) returned
HasMethod(api, method) ==
  \/ method \in {"listDevices", "getDeviceState", "controlDevice"}
  \/ api = "v2" /\ method \in router.scenes

\* a parseDevice that asks for the device id only
parseDeviceModelOptional(args) ==
  IF Falsy(args.device_id) THEN [ok |-> FALSE, deviceId |-> Undefined, model |-> Undefined]
  ELSE [ok |-> TRUE, deviceId |-> args.device_id, model |-> args.model]

parseDevice(args) ==
  IF Falsy(args.device_id) \/ Falsy(args.model)
    THEN [ok |-> FALSE, deviceId |-> Undefined, model |-> Undefined]
    ELSE [ok |-> TRUE, deviceId |-> args.device_id, model |-> args.model]

DeviceRequired == fail(<<"device_id and model are required">>)

\* a validateInt without the range check
validateIntNoRange(value, name, min, max) ==
  IF value.kind = "missing" THEN <<name, "is required">>
  ELSE IF value.kind # "integer" THEN <<name, "must be an integer">>
  ELSE <<>>

\* validateInt: the error message, <<>> for undefined
validateInt(value, name, min, max) ==
  IF value.kind = "missing" THEN <<name, "is required">>
  ELSE IF value.kind # "integer" THEN <<name, "must be an integer">>
  ELSE IF value.n < min \/ value.n > max THEN <<name, "must be between min and max">>
  ELSE <<>>

\* the handler returns a ToolResult
Return(r, result) == [r EXCEPT !.status = "returned", !.awaiting = "", !.result = result]

\* the handler's promise rejects
Throw(r, e) == [r EXCEPT !.status = "rejected", !.awaiting = "", !.error = e]

\* `await api.method(device, model, arg)`
Await(r, method, device, arg) ==
  [r EXCEPT !.status = "awaiting", !.awaiting = method,
            !.calls = Append(@, [method |-> method, device |-> device.deviceId,
                                 model |-> device.model, arg |-> arg])]

\* `const api = router.get(backend)`: the call is recorded; a disabled backend
\* makes router.get throw
Get(r, backend) ==
  LET got == RouterGet(backend)
      asked == [r EXCEPT !.gets = Append(@, backend)]
  IN IF got.ok THEN [asked EXCEPT !.api = got.api] ELSE Throw(asked, got.error)

\* `const api = router.get(backend); await api.method(...)`
GetAndAwait(r, backend, method, device, arg) ==
  LET got == Get(r, backend)
  IN IF got.status = "rejected" THEN got ELSE Await(got, method, device, arg)

InvalidBackend(backend) == fail(<<"Invalid backend", backend>>)

handleListDevices(r) ==
  LET backend == parseBackend(r.args.backend)
  IN IF ~backend.ok THEN Return(r, InvalidBackend(backend.backend))
     ELSE GetAndAwait(r, backend.backend, "listDevices",
                      [ok |-> TRUE, deviceId |-> Undefined, model |-> Undefined], NoCmd)

handleGetDeviceState(r) ==
  LET device == parseDevice(r.args)
      backend == parseBackend(r.args.backend)
  IN IF ~device.ok THEN Return(r, DeviceRequired)
     ELSE IF ~backend.ok THEN Return(r, InvalidBackend(backend.backend))
     ELSE GetAndAwait(r, backend.backend, "getDeviceState", device, NoCmd)

handleSetPower(r) ==
  LET device == parseDevice(r.args)
      state == r.args.state
      backend == parseBackend(r.args.backend)
  IN IF ~device.ok THEN Return(r, DeviceRequired)
     ELSE IF Falsy(state) THEN Return(r, fail(<<"state is required">>))
     ELSE IF state # "on" /\ state # "off" THEN Return(r, fail(<<"state must be 'on' or 'off'">>))
     ELSE IF ~backend.ok THEN Return(r, InvalidBackend(backend.backend))
     ELSE GetAndAwait(r, backend.backend, "controlDevice", device,
                      [name |-> "turn", value |-> state])

handleSetBrightness(r) ==
  LET device == parseDevice(r.args)
      brightness == r.args.brightness
      err == validateInt(brightness, "brightness", 0, 100)
      backend == parseBackend(r.args.backend)
  IN IF ~device.ok THEN Return(r, DeviceRequired)
     ELSE IF err # <<>> THEN Return(r, fail(err))
     ELSE IF ~backend.ok THEN Return(r, InvalidBackend(backend.backend))
     ELSE GetAndAwait(r, backend.backend, "controlDevice", device,
                      [name |-> "brightness", value |-> brightness])

handleSetColor(r) ==
  LET device == parseDevice(r.args)
      colorErr == IF validateInt(r.args.r, "r", 0, 255) # <<>>
                    THEN validateInt(r.args.r, "r", 0, 255)
                  ELSE IF validateInt(r.args.g, "g", 0, 255) # <<>>
                    THEN validateInt(r.args.g, "g", 0, 255)
                  ELSE validateInt(r.args.b, "b", 0, 255)
      backend == parseBackend(r.args.backend)
  IN IF ~device.ok THEN Return(r, DeviceRequired)
     ELSE IF colorErr # <<>> THEN Return(r, fail(colorErr))
     ELSE IF ~backend.ok THEN Return(r, InvalidBackend(backend.backend))
     ELSE GetAndAwait(r, backend.backend, "controlDevice", device,
                      [name |-> "color",
                       value |-> [r |-> r.args.r, g |-> r.args.g, b |-> r.args.b]])

handleSetColorTemperature(r) ==
  LET device == parseDevice(r.args)
      temperature == r.args.temperature
      tempErr == validateInt(temperature, "temperature", 2000, 9000)
      backend == parseBackend(r.args.backend)
  IN IF ~device.ok THEN Return(r, DeviceRequired)
     ELSE IF tempErr # <<>> THEN Return(r, fail(tempErr))
     ELSE IF ~backend.ok THEN Return(r, InvalidBackend(backend.backend))
     ELSE GetAndAwait(r, backend.backend, "controlDevice", device,
                      [name |-> "colorTem", value |-> temperature])

\* a list_scenes handler that calls listScenes without looking for it
handleListScenesUnchecked(r) ==
  LET device == parseDevice(r.args)
  IN IF ~device.ok THEN Return(r, DeviceRequired)
     ELSE GetAndAwait(r, "v2", "listScenes", device, NoCmd)

handleListScenes(r) ==
  LET device == parseDevice(r.args)
      api == Get(r, "v2")
  IN IF ~device.ok THEN Return(r, DeviceRequired)
     ELSE IF api.status = "rejected" THEN api
     ELSE IF ~HasMethod(api.api, "listScenes")
       THEN Return(api, fail(<<"list_scenes", "is only available with the v2 backend">>))
     ELSE Await(api, "listScenes", device, NoCmd)

handleListDiyScenes(r) ==
  LET device == parseDevice(r.args)
      api == Get(r, "v2")
  IN IF ~device.ok THEN Return(r, DeviceRequired)
     ELSE IF api.status = "rejected" THEN api
     ELSE IF ~HasMethod(api.api, "listDiyScenes")
       THEN Return(api, fail(<<"list_diy_scenes", "is only available with the v2 backend">>))
     ELSE Await(api, "listDiyScenes", device, NoCmd)

\* handleActivateScene up to `await listFn(...)`
handleActivateScene(r) ==
  LET device == parseDevice(r.args)
      sceneName == r.args.scene_name
      sceneType == r.args.scene_type
      api == Get(r, "v2")
      isDiy == sceneType = "diy"
      listFn == IF isDiy THEN "listDiyScenes" ELSE "listScenes"
  IN IF ~device.ok THEN Return(r, DeviceRequired)
     ELSE IF Falsy(sceneName) THEN Return(r, fail(<<"scene_name is required">>))
     ELSE IF sceneType # "light" /\ sceneType # "diy"
       THEN Return(r, fail(<<"scene_type must be 'light' or 'diy'">>))
     ELSE IF api.status = "rejected" THEN api
     ELSE IF ~HasMethod(api.api, "activateScene")
       THEN Return(api, fail(<<"activate_scene", "is only available with the v2 backend">>))
     ELSE IF ~HasMethod(api.api, listFn)
       THEN Return(api, fail(<<"activate_scene", "is only available with the v2 backend">>))
     ELSE Await(api, listFn, device, NoCmd)

\* createV2Api's activateScene(device, model, sceneType, sceneValue): the
\* capability it posts to /device/control
V2_activateScene(device, model, sceneType, sceneValue) ==
  [t |-> "object", type |-> CAP_SCENE,
   instance |-> IF sceneType.t = "string" /\ sceneType.s = "diy" THEN "diyScene" ELSE "lightScene",
   value |-> sceneValue]

\* scenes.find((s) => s.name === sceneName): the index of the first match, 0
\* for none
FindScene(scenes, sceneName) ==
  IF \E i \in 1..Len(scenes) : scenes[i].name = sceneName
    THEN CHOOSE i \in 1..Len(scenes) :
           /\ scenes[i].name = sceneName
           /\ \A j \in 1..(i - 1) : scenes[j].name # sceneName
    ELSE 0

\* a continuation that activates the first listed scene whatever its name
handleActivateSceneListedFirst(r, scenes) ==
  LET isDiy == r.args.scene_type = "diy"
      label == IF isDiy THEN "DIY scene" ELSE "Scene"
      listed == [r EXCEPT !.scenes = scenes]
      capability == [t |-> "object", type |-> "devices.capabilities.dynamic_scene",
                     instance |-> IF isDiy THEN "diyScene" ELSE "lightScene",
                     value |-> scenes[1].value]
  IN IF Len(scenes) = 0 THEN Return(listed, fail(<<label, r.args.scene_name, "not found">>))
     ELSE [Await(listed, "activateScene", parseDevice(r.args), capability)
             EXCEPT !.posted = V2_activateScene(r.args.device_id, r.args.model,
                                                capability, JsUndefined)]

\* handleActivateScene from the list of scenes to `await api.activateScene(...)`:
\* the handler passes three arguments, so the backend's fourth parameter is
\* undefined
handleActivateSceneListed(r, scenes) ==
  LET isDiy == r.args.scene_type = "diy"
      label == IF isDiy THEN "DIY scene" ELSE "Scene"
      listed == [r EXCEPT !.scenes = scenes]
      found == FindScene(scenes, r.args.scene_name)
      capability == [t |-> "object", type |-> "devices.capabilities.dynamic_scene",
                     instance |-> IF isDiy THEN "diyScene" ELSE "lightScene",
                     value |-> scenes[found].value]
  IN IF found = 0 THEN Return(listed, fail(<<label, r.args.scene_name, "not found">>))
     ELSE [Await(listed, "activateScene", parseDevice(r.args), capability)
             EXCEPT !.posted = V2_activateScene(r.args.device_id, r.args.model,
                                                capability, JsUndefined)]

\* the handler map: the handler of a tool, run to its first await
handlers(name, r) ==
  CASE name = "list_devices" -> handleListDevices(r)
    [] name = "get_device_state" -> handleGetDeviceState(r)
    [] name = "set_power" -> handleSetPower(r)
    [] name = "set_brightness" -> handleSetBrightness(r)
    [] name = "set_color" -> handleSetColor(r)
    [] name = "set_color_temperature" -> handleSetColorTemperature(r)
    [] name = "list_scenes" -> handleListScenes(r)
    [] name = "list_diy_scenes" -> handleListDiyScenes(r)
    [] name = "activate_scene" -> handleActivateScene(r)

ToolNames == {"list_devices", "get_device_state", "set_power", "set_brightness",
              "set_color", "set_color_temperature", "list_scenes", "list_diy_scenes",
              "activate_scene"}

\* the awaited backend method rejects: no handler catches, its promise rejects
\* with the same error
AwaitRejected(r, e) == Throw(r, e)

\* the awaited backend method resolves: the rest of the handler
AwaitResolved(r, value) ==
  CASE r.tool = "list_devices" -> Return(r, ok(<<"devices">>))
    [] r.tool = "get_device_state" -> Return(r, ok(<<"state">>))
    [] r.tool = "set_power" -> Return(r, ok(<<"Device turned", r.args.state, "successfully.">>))
    [] r.tool = "set_brightness" -> Return(r, ok(<<"Brightness set">>))
    [] r.tool = "set_color" -> Return(r, ok(<<"Color set">>))
    [] r.tool = "set_color_temperature" -> Return(r, ok(<<"Color temperature set">>))
    [] r.tool \in {"list_scenes", "list_diy_scenes"} ->
         Return([r EXCEPT !.scenes = value], ok(<<"scenes">>))
    [] r.tool = "activate_scene" ->
         IF r.awaiting = "activateScene"
           THEN Return(r, ok(<<IF r.args.scene_type = "diy" THEN "DIY scene" ELSE "Scene",
                               r.args.scene_name, "activated.">>))
           ELSE handleActivateSceneListed(r, value)

\* ---- the arguments of the handler calls
DeviceId == "AA:BB:CC:DD:EE:FF"

DeviceArgs == {<<DeviceId, Model>>, <<Undefined, Model>>, <<DeviceId, Undefined>>,
               <<"", Model>>, <<DeviceId, "">>}


Args(device, backend) ==
  [NoArgs EXCEPT !.device_id = device[1], !.model = device[2], !.backend = backend]

\* what the v2 backend lists
SceneLists(method) ==
  IF method = "listScenes"
    THEN {<<>>, <<[name |-> "Sunset", value |-> SceneParams(1, 100)],
                  [name |-> "Rainbow", value |-> SceneParams(2, 200)]>>}
  ELSE IF method = "listDiyScenes" THEN {<<>>, <<[name |-> "My DIY", value |-> JsNumber(42)]>>}
  ELSE {<<>>}

\* the errors a backend method rejects with
BackendErrors == {TransportError, "API failure"}

\* the routers createHandlers is given: the server's, and routers whose v2
\* instance lacks some of the optional scene methods
HandlerRouter(config, scenes) ==
  [defaultBackend |-> createApiRouter(config).defaultBackend,
   enabled |-> createApiRouter(config).enabled,
   scenes |-> scenes]

HandlerInit ==
  /\ now = 0
  /\ cache = NoCache
  /\ pending = 0
  /\ scans = <<>>
  /\ call = [c \in CallIds |-> NewHandlerCall]
  /\ received = <<>>
  /\ stdout = <<>>
  /\ \E i \in 1..Len(BACKENDS), lanEnabled \in BOOLEAN,
        scenes \in {SceneMethods, {}, {"listScenes", "listDiyScenes"}, {"activateScene"}} :
       router = HandlerRouter([defaultBackend |-> BACKENDS[i], lanEnabled |-> lanEnabled], scenes)

\* handlers[name](args), to the handler's first await or its return
HandlerCall(name, args) ==
  /\ call[1].tool = "none"
  /\ call' = [call EXCEPT ![1] = handlers(name, [NewHandlerCall EXCEPT !.tool = name, !.args = args])]
  /\ UNCHANGED <<now, cache, pending, scans, received, router, stdout>>

\* the awaited backend method resolves and the handler runs on
BackendResolves(value) ==
  /\ call[1].status = "awaiting"
  /\ value \in SceneLists(call[1].awaiting)
  /\ call' = [call EXCEPT ![1] =
               AwaitResolved([call[1] EXCEPT !.outcomes = Append(@, "resolved")], value)]
  /\ UNCHANGED <<now, cache, pending, scans, received, router, stdout>>

\* the awaited backend method rejects
BackendRejects(e) ==
  /\ call[1].status = "awaiting"
  /\ call' = [call EXCEPT ![1] = AwaitRejected([call[1] EXCEPT !.outcomes = Append(@, e)], e)]
  /\ UNCHANGED <<now, cache, pending, scans, received, router, stdout>>

HandlerNext ==
  \/ call[1].tool = "none" /\ \E backend \in BackendArgs : HandlerCall("list_devices", Args(<<Undefined, Undefined>>, backend))
  \/ call[1].tool = "none" /\ \E device \in DeviceArgs, backend \in BackendArgs :
       HandlerCall("get_device_state", Args(device, backend))
  \/ call[1].tool = "none" /\ \E device \in DeviceArgs, backend \in BackendArgs, state \in {Undefined, "", "on", "off", "dim"} :
       HandlerCall("set_power", [Args(device, backend) EXCEPT !.state = state])
  \/ call[1].tool = "none" /\ \E device \in DeviceArgs, backend \in BackendArgs,
        brightness \in {Missing, NonInteger, Integer(-1), Integer(0), Integer(100), Integer(101)} :
       HandlerCall("set_brightness", [Args(device, backend) EXCEPT !.brightness = brightness])
  \/ call[1].tool = "none" /\ \E device \in DeviceArgs, backend \in BackendArgs,
        r, g, b \in {Missing, NonInteger, Integer(-1), Integer(0), Integer(255), Integer(256)} :
       HandlerCall("set_color", [Args(device, backend) EXCEPT !.r = r, !.g = g, !.b = b])
  \/ call[1].tool = "none" /\ \E device \in DeviceArgs, backend \in BackendArgs,
        temperature \in {Missing, NonInteger, Integer(1999), Integer(2000),
                          Integer(9000), Integer(9001)} :
       HandlerCall("set_color_temperature",
                   [Args(device, backend) EXCEPT !.temperature = temperature])
  \/ call[1].tool = "none" /\ \E device \in DeviceArgs, backend \in BackendArgs :
       HandlerCall("list_scenes", Args(device, backend))
  \/ call[1].tool = "none" /\ \E device \in DeviceArgs, backend \in BackendArgs :
       HandlerCall("list_diy_scenes", Args(device, backend))
  \/ call[1].tool = "none" /\ \E device \in DeviceArgs, backend \in BackendArgs,
        sceneName \in {Undefined, "", "Sunset", "Rainbow", "My DIY", "Nonexistent"},
        sceneType \in {Undefined, "light", "diy", "invalid"} :
       HandlerCall("activate_scene", [Args(device, backend) EXCEPT
                     !.scene_name = sceneName, !.scene_type = sceneType])
  \/ call[1].status = "awaiting" /\ \E value \in SceneLists(call[1].awaiting) : BackendResolves(value)
  \/ \E e \in BackendErrors : BackendRejects(e)

HandlerSpec == HandlerInit /\ [][HandlerNext]_vars

\* ------------------------------------------------------ the request dispatcher
\* src/index.ts: one line of stdin is one task; the handler of a tools/call
\* request runs in that task up to its first await, and the response is
\* written in the task in which the handler's promise settles.
reply(id, result) ==
  [id |-> id, kind |-> "result", code |-> 0, isError |-> result.isError, text |-> result.text]

textReply(id, text) == reply(id, [isError |-> FALSE, text |-> text])

error(id, code, message) ==
  [id |-> id, kind |-> "error", code |-> code, isError |-> FALSE, text |-> message]

\* a handleToolCall whose catch answers Internal error for every error
handleToolCallInternalError(id, r) ==
  IF r.status = "returned"
    THEN IF r.result.ok THEN textReply(id, r.result.text)
         ELSE reply(id, [isError |-> TRUE, text |-> r.result.message])
    ELSE reply(id, [isError |-> TRUE, text |-> <<"Internal error">>])

\* handleToolCall from the settling of `await handler(args)`: the response it
\* writes.  Every error a backend or the router raises is an Error, so the
\* catch block answers with its message.
handleToolCall(id, r) ==
  IF r.status = "returned"
    THEN IF r.result.ok THEN textReply(id, r.result.text)
         ELSE reply(id, [isError |-> TRUE, text |-> r.result.message])
    ELSE reply(id, [isError |-> TRUE, text |-> <<r.error>>])

\* stdout once the handler of call record r ran as far as it can
Written(r) ==
  IF r.status = "awaiting" THEN stdout ELSE Append(stdout, handleToolCall(r.id, r))

send(c, r, msg) ==
  /\ call' = [call EXCEPT ![c] = r]
  /\ stdout' = Append(stdout, msg)

\* the switch of handleRequest
Dispatch(c, req) ==
  LET r == [NewHandlerCall EXCEPT !.line = "request", !.id = req.id, !.method = req.method]
      id == req.id
  IN CASE req.method = "initialize" ->
            send(c, r, reply(id, [isError |-> FALSE, text |-> <<"serverInfo">>]))
       [] req.method = "tools/list" ->
            send(c, r, reply(id, [isError |-> FALSE, text |-> <<"tools">>]))
       [] req.method = "tools/call" ->
            IF req.name \notin ToolNames
              THEN send(c, r, error(id, -32601, <<"Unknown tool", req.name>>))
              ELSE LET h == handlers(req.name, [r EXCEPT !.tool = req.name, !.args = req.args])
                   IN /\ call' = [call EXCEPT ![c] = h]
                      /\ stdout' = Written(h)
       [] req.method = "ping" ->
            send(c, r, reply(id, [isError |-> FALSE, text |-> <<>>]))
       [] OTHER -> send(c, r, error(id, -32601, <<"Method not found">>))

\* a handleRequest that answers notifications as well
handleRequestAnswersNotifications(c, req) == Dispatch(c, req)

handleRequest(c, req) ==
  IF req.id = NullId
    THEN /\ call' = [call EXCEPT ![c] = [NewHandlerCall EXCEPT
                       !.line = "request", !.id = req.id, !.method = req.method]]
         /\ stdout' = stdout
    ELSE Dispatch(c, req)

\* rl.on('line', handleLine): a blank line is skipped; a line that is not JSON
\* makes JSON.parse throw, and the JSON value null makes handleRequest throw
\* on req.id; both are answered with the parse error, whose id is null
handleLine(c, line) ==
  /\ call[c].line = "none"
  /\ \A b \in CallIds : b < c => call[b].line # "none"
  /\ IF line.kind = "blank"
       THEN /\ call' = [call EXCEPT ![c].line = "blank"]
            /\ stdout' = stdout
       ELSE IF line.kind \in {"garbage", "null"}
         THEN send(c, [call[c] EXCEPT !.line = line.kind],
                   error(NullId, -32700, <<"Parse error">>))
         ELSE handleRequest(c, line)
  /\ UNCHANGED <<now, cache, pending, scans, received, router>>

\* the backend method a handler awaits resolves
ServerBackendResolves(c, value) ==
  /\ call[c].status = "awaiting"
  /\ value \in SceneLists(call[c].awaiting)
  /\ LET r == AwaitResolved([call[c] EXCEPT !.outcomes = Append(@, "resolved")], value)
     IN /\ call' = [call EXCEPT ![c] = r]
        /\ stdout' = Written(r)
  /\ UNCHANGED <<now, cache, pending, scans, received, router>>

\* the backend method a handler awaits rejects
ServerBackendRejects(c, e) ==
  /\ call[c].status = "awaiting"
  /\ LET r == AwaitRejected([call[c] EXCEPT !.outcomes = Append(@, e)], e)
     IN /\ call' = [call EXCEPT ![c] = r]
        /\ stdout' = Written(r)
  /\ UNCHANGED <<now, cache, pending, scans, received, router>>

\* ---- the lines a client sends
Line(kind, id, method, name, args) ==
  [kind |-> kind, id |-> id, method |-> method, name |-> name, args |-> args]

\* the requests the client with request id `id` may send (NullId: as a
\* notification)
RequestLines(id) ==
  {Line("request", id, method, "", NoArgs) :
     method \in {"initialize", "tools/list", "ping", "resources/list"}}
  \cup {Line("request", id, "tools/call", "no_such_tool", NoArgs),
        Line("request", id, "tools/call", "set_power",
             [Args(<<DeviceId, Model>>, Undefined) EXCEPT !.state = "on"]),
        Line("request", id, "tools/call", "set_power",
             [Args(<<DeviceId, Model>>, Undefined) EXCEPT !.state = "dim"]),
        Line("request", id, "tools/call", "set_power",
             [Args(<<DeviceId, Model>>, "lan") EXCEPT !.state = "on"]),
        Line("request", id, "tools/call", "activate_scene",
             [Args(<<DeviceId, Model>>, Undefined) EXCEPT
                !.scene_name = "Sunset", !.scene_type = "light"])}

\* the server's router: v2 is createV2Api, which has the scene methods
ServerInit ==
  /\ now = 0
  /\ cache = NoCache
  /\ pending = 0
  /\ scans = <<>>
  /\ call = [c \in CallIds |-> NewHandlerCall]
  /\ received = <<>>
  /\ stdout = <<>>
  /\ \E lanEnabled \in BOOLEAN :
       router = HandlerRouter([defaultBackend |-> "v1", lanEnabled |-> lanEnabled], SceneMethods)

ServerNext ==
  \/ \E c \in CallIds : call[c].line = "none" /\ \E kind \in {"blank", "garbage", "null"} :
                                  handleLine(c, Line(kind, NullId, "", "", NoArgs))
  \/ \E c \in CallIds : call[c].line = "none" /\ \E line \in RequestLines(c) : handleLine(c, line)
  \/ \E c \in CallIds : call[c].line = "none" /\ \E line \in RequestLines(NullId) : handleLine(c, line)
  \/ \E c \in CallIds : call[c].status = "awaiting" /\
       \E value \in SceneLists(call[c].awaiting) : ServerBackendResolves(c, value)
  \/ \E c \in CallIds, e \in BackendErrors : ServerBackendRejects(c, e)

ServerSpec == ServerInit /\ [][ServerNext]_vars

\* ===================================================================== claims
\* a call is issued in this step
Issued(c) == call[c].op = "none" /\ call'[c].op # "none"

\* the cache entry exists and has not expired
FreshCache == cache.set /\ now < cache.expiry


\* C1: the calls that are waiting for discovery at the same time all wait for
\* the same scan; a scan sends at most one multicast datagram, exactly one
\* when it resolves; every call that joined a resolved scan obtained the list
\* that scan collected.
C1_SingleFlight ==
  /\ \A c, d \in CallIds :
       call[c].awaiting /\ call[d].awaiting => call[c].scan = call[d].scan
  /\ \A s \in ScanIds : scans[s].sent <= 1
  /\ \A c \in CallIds :
       (call[c].scan # 0 /\ ~call[c].awaiting /\ scans[call[c].scan].status = "resolved")
         => /\ scans[call[c].scan].sent = 1
            /\ call[c].lan = scans[call[c].scan].devices

C1_Witness ==
  \E c, d \in CallIds :
    /\ c # d /\ call[c].scan # 0 /\ call[c].scan = call[d].scan
    /\ scans[call[c].scan].status = "resolved"
    /\ ~call[c].awaiting /\ ~call[d].awaiting
    /\ Len(call[c].lan) > 0 /\ call[d].lan = call[c].lan

\* C2: a call issued while the cache entry is fresh gets the cached list from
\* discover at once: no scan is started or joined, so no socket is opened and
\* no multicast datagram is sent, and a fresh entry is never replaced, so two
\* calls inside one validity window obtain the same list.
C2_CachedNoScan ==
  /\ [][\A c \in CallIds : (Issued(c) /\ FreshCache) =>
          /\ scans' = scans /\ pending' = pending
          /\ ~call'[c].awaiting /\ call'[c].scan = 0
          /\ call'[c].lan = cache.devices]_vars
  /\ [][FreshCache => cache' = cache]_vars

C2_Witness ==
  \E c \in CallIds :
    /\ call[c].op # "none" /\ call[c].scan = 0 /\ Len(call[c].lan) > 0
    /\ Len(scans) = 1 /\ scans[1].sent = 1

\* C3: at most one scan is in flight; the token names a scan exactly while
\* that scan is unsettled (it is cleared on success and on failure); a call
\* that finds neither a fresh cache entry nor a token starts a new scan.
C3_OneScanInFlight ==
  /\ [](/\ Cardinality({s \in ScanIds : scans[s].status = "pending"}) <= 1
        /\ pending # 0 => pending \in ScanIds
        /\ \A s \in ScanIds : scans[s].status = "pending" <=> pending = s)
  /\ [][\A c \in CallIds : (Issued(c) /\ ~FreshCache /\ pending = 0) =>
          /\ Len(scans') = Len(scans) + 1
          /\ pending' = Len(scans')
          /\ call'[c].awaiting /\ call'[c].scan = pending']_vars

C3_Witness ==
  \E s \in ScanIds :
    /\ scans[s].status = "rejected" /\ pending # 0 /\ pending > s
    /\ scans[pending].status = "pending"

\* C4: when a scan is rejected (bind failure, listener error or send failure)
\* its listener is closed, its timer cancelled and the token cleared, every
\* caller waiting on it is rejected with that transport error before using
\* any control socket, and the cache entry is left as it was; the cache is
\* written only by a scan that resolves.
C4_FailedScan ==
  /\ [](\A s \in ScanIds : scans[s].status = "rejected" =>
          /\ scans[s].listener = "closed" /\ scans[s].timer = NoTimer
          /\ scans[s].error = TransportError
          /\ pending # s)
  /\ [][\A s \in ScanIds : (scans[s].status = "pending" /\ scans'[s].status = "rejected") =>
          /\ cache' = cache /\ pending' = 0
          /\ \A c \in CallIds : (call[c].awaiting /\ call[c].scan = s) =>
               /\ call'[c].status = "rejected" /\ call'[c].error = scans'[s].error
               /\ call'[c].sock = "none" /\ call'[c].sent = 0]_vars
  /\ [][cache' # cache =>
          \E s \in ScanIds : scans[s].status = "pending" /\ scans'[s].status = "resolved"]_vars

C4_Witness ==
  \E s \in ScanIds, c \in CallIds :
    /\ scans[s].status = "rejected" /\ scans[s].error = TransportError
    /\ scans[s].sent = 1 /\ Len(scans[s].devices) > 0
    /\ call[c].scan = s /\ call[c].status = "rejected" /\ call[c].error = TransportError
    /\ cache = NoCache

\* the datagram parses and carries the command tag `tag`
Tagged(m, tag) ==
  m.json /\ Has(m.value, "msg") /\ Has(m.value.msg, "cmd") /\ m.value.msg.cmd = tag

Settled(c) == call[c].status \in {"resolved", "rejected"}

\* something that can still settle the call is outstanding: the scan it waits
\* for, a bind or send callback of its socket, or its timer
Outstanding(c) ==
  \/ call[c].awaiting
  \/ call[c].bindCb
  \/ call[c].sendCb
  \/ call[c].timer # NoTimer

\* C5: every call that has been issued is eventually resolved or rejected,
\* whatever datagrams arrive: while it is pending, a scan, a socket callback or
\* a timer that will settle it is still outstanding.
C5_EveryCallSettles ==
  /\ [](\A c \in CallIds : call[c].status = "pending" => Outstanding(c))
  /\ \A c \in CallIds : (call[c].status = "pending") ~> Settled(c)

\* C6: the bind callback of getDeviceState arms a timer CONTROL_TIMEOUT_MS
\* ahead, and the timer stays armed for as long as the call waits on its open
\* socket.  Only the timer firing, a datagram tagged devStatus or a transport
\* error disarms it; when it fires the call is rejected with the timeout error
\* and its socket is closed.
C6_QueryTimeout ==
  /\ [](\A c \in CallIds : call[c].op = "getDeviceState" =>
          /\ (call[c].error = "timeout") =>
               (call[c].status = "rejected" /\ call[c].sock = "closed"
                  /\ call[c].timer = NoTimer)
          /\ (call[c].status = "pending" /\ call[c].sock = "open" /\ ~call[c].bindCb) =>
               call[c].timer # NoTimer)
  /\ [][\A c \in CallIds : (call[c].bindCb /\ ~call'[c].bindCb /\ call'[c].status = "pending")
          => call'[c].timer = now + CONTROL_TIMEOUT_MS]_vars
  /\ [][\A c \in CallIds : (call[c].timer # NoTimer /\ call'[c].timer = NoTimer) =>
          \/ /\ now >= call[c].timer
             /\ call'[c].status = "rejected" /\ call'[c].error = "timeout"
             /\ call'[c].sock = "closed"
          \/ \E m \in Datagrams : Tagged(m, "devStatus") /\ QueryMessage(c, m)
          \/ call'[c].error = TransportError]_vars

C6_Witness ==
  \E c, d \in CallIds :
    /\ c < d
    /\ call[c].op = "getDeviceState" /\ call[c].error = "timeout" /\ call[c].sock = "closed"
    /\ call[d].op = "getDeviceState" /\ call[d].device = call[c].device
    /\ call[d].status = "resolved" /\ call[d].sock = "closed"

\* C7: no datagram that fails to parse or carries another tag than devStatus
\* changes anything when it is delivered to a query socket: the call stays
\* pending, its socket open and its timer armed.
C7_OtherDatagramsIgnored ==
  [][\A c \in CallIds, m \in Datagrams :
       ~(~Tagged(m, "devStatus") /\ QueryMessage(c, m))]_vars

C7_Witness ==
  \E c \in CallIds :
    /\ call[c].op = "getDeviceState" /\ call[c].status = "pending"
    /\ call[c].sock = "open" /\ ~call[c].bindCb /\ ~call[c].sendCb
    /\ call[c].timer # NoTimer /\ now < call[c].timer

\* the cache holds no entry naming the device
AbsentFromCache(id) ==
  ~cache.set \/ \A i \in 1..Len(cache.devices) : cache.devices[i].device # id

ControlOps == {"getDeviceState", "controlDevice"}

\* C8 as stated: a state or control call for a device absent from the cache
\* fails at once with device-not-found and starts no scan, whatever the state
\* of the cache.
C8_NeverScans ==
  [][\A c \in CallIds :
       (Issued(c) /\ call'[c].op \in ControlOps /\ AbsentFromCache(call'[c].device)) =>
          /\ call'[c].status = "rejected" /\ call'[c].error = "notfound"
          /\ scans' = scans]_vars

\* C8 amended: a state or control call whose device is absent from the list
\* that discover returned to it is rejected with device-not-found without
\* opening a control socket or sending a datagram; with a fresh cache entry
\* that happens at once and no scan is started.
C8_NotFoundNoControlSend ==
  /\ [](\A c \in CallIds :
          (/\ call[c].op \in ControlOps /\ ~call[c].awaiting
           /\ call[c].error # TransportError
           /\ \A i \in 1..Len(call[c].lan) : call[c].lan[i].device # call[c].device)
          => /\ call[c].status = "rejected" /\ call[c].error = "notfound"
             /\ call[c].sock = "none" /\ call[c].sent = 0)
  /\ [][\A c \in CallIds :
          (/\ Issued(c) /\ call'[c].op \in ControlOps /\ FreshCache
           /\ AbsentFromCache(call'[c].device))
          => /\ call'[c].status = "rejected" /\ call'[c].error = "notfound"
             /\ call'[c].sock = "none" /\ call'[c].sent = 0
             /\ scans' = scans /\ pending' = pending]_vars

C8_Witness ==
  \E c \in CallIds :
    /\ call[c].op \in ControlOps /\ call[c].error = "notfound"
    /\ call[c].scan = 0 /\ Len(call[c].lan) > 0 /\ call[c].sent = 0

\* C9: a call issued without a fresh cache entry waits for a scan before it
\* does anything else; a call that is waiting for discovery has no socket and
\* has sent nothing; a call that has opened a control socket obtained its list
\* from the cache or from a scan that resolved, found its device in that list,
\* and sends to that device's address on the control port.
C9_DiscoveryFirst ==
  /\ [](\A c \in CallIds :
          /\ call[c].awaiting =>
               /\ call[c].status = "pending" /\ call[c].sock = "none" /\ call[c].sent = 0
               /\ call[c].scan \in ScanIds /\ scans[call[c].scan].status = "pending"
          /\ (call[c].sock # "none" \/ call[c].sent > 0) =>
               /\ ~call[c].awaiting
               /\ call[c].scan # 0 => scans[call[c].scan].status = "resolved"
               /\ \E i \in 1..Len(call[c].lan) : call[c].lan[i].device = call[c].device
               /\ call[c].sent > 0 =>
                    /\ call[c].sentPort = CONTROL_PORT
                    /\ \E i \in 1..Len(call[c].lan) :
                         /\ call[c].lan[i].device = call[c].device
                         /\ call[c].lan[i].ip = call[c].sentTo)
  /\ [][\A c \in CallIds : (Issued(c) /\ ~FreshCache) =>
          /\ call'[c].awaiting /\ call'[c].scan = pending'
          /\ call'[c].sock = "none" /\ call'[c].sent = 0]_vars

C9_Witness ==
  \E c \in CallIds :
    /\ call[c].op \in ControlOps /\ call[c].scan # 0
    /\ scans[call[c].scan].status = "resolved"
    /\ call[c].sent = 1 /\ call[c].sentTo = "10.0.0.5"

\* the identifier carried by a datagram that the listener takes for a scan
\* response, Undefined for any other datagram
ResponseId(m) ==
  IF Tagged(m, "scan") /\ Has(m.value.msg, "data") /\ Has(m.value.msg.data, "device")
     /\ m.value.msg.data.device # ""
  THEN m.value.msg.data.device ELSE Undefined

ReceivedIds == {ResponseId(received[i]) : i \in 1..Len(received)} \ {Undefined}

FirstFrom(id) ==
  received[CHOOSE i \in 1..Len(received) :
             /\ ResponseId(received[i]) = id
             /\ \A j \in 1..(i - 1) : ResponseId(received[j]) # id].value.msg.data

FieldOr(d, k, default) == IF Has(d, k) THEN d[k] ELSE default

\* devs holds exactly one device for `id`, built from the first response with it
OneFromFirst(devs, id) ==
  /\ Cardinality({i \in 1..Len(devs) : devs[i].device = id}) = 1
  /\ \A i \in 1..Len(devs) : devs[i].device = id =>
       /\ devs[i].ip = FieldOr(FirstFrom(id), "ip", Undefined)
       /\ devs[i].sku = FieldOr(FirstFrom(id), "sku", Undefined)
       /\ devs[i].bleVersionHard = FieldOr(FirstFrom(id), "bleVersionHard", "")
       /\ devs[i].bleVersionSoft = FieldOr(FirstFrom(id), "bleVersionSoft", "")
       /\ devs[i].wifiVersionHard = FieldOr(FirstFrom(id), "wifiVersionHard", "")
       /\ devs[i].wifiVersionSoft = FieldOr(FirstFrom(id), "wifiVersionSoft", "")

\* C10: for every identifier carried by a scan response received in the
\* window, the collected list, and the cache entry and result made from it,
\* hold exactly one device with that identifier, and its fields are those of
\* the first response that carried the identifier.
C10_FirstResponseWins ==
  \A id \in ReceivedIds :
    /\ OneFromFirst(scans[1].devices, id)
    /\ scans[1].status = "resolved" =>
         /\ cache.set /\ OneFromFirst(cache.devices, id)
         /\ OneFromFirst(call[1].lan, id)
         /\ Cardinality({i \in 1..Len(call[1].result) : call[1].result[i].device = id}) = 1

C10_Witness ==
  /\ Len(received) >= 2
  /\ received[1] = ScanA2 /\ received[2] = ScanA1
  /\ scans[1].status = "resolved"
  /\ Len(cache.devices) = 1 /\ cache.devices[1].ip = "10.0.0.6"
  /\ cache.devices[1].sku = "H6199"

\* the identifiers of the scan responses in a sequence of datagrams, each at
\* the place of its first occurrence
RECURSIVE FirstIds(_)
FirstIds(seq) ==
  IF seq = <<>> THEN <<>>
  ELSE LET before == FirstIds(SubSeq(seq, 1, Len(seq) - 1))
           id == ResponseId(seq[Len(seq)])
       IN IF id = Undefined \/ \E i \in 1..Len(before) : before[i] = id
          THEN before ELSE Append(before, id)

IdsOf(devs) == [i \in 1..Len(devs) |-> devs[i].device]

Distinct(ids) == \A i, j \in 1..Len(ids) : ids[i] = ids[j] => i = j

\* C11: the list a scan collects, the cache entry stored from it and the list
\* returned to the caller hold pairwise distinct identifiers, in the order in
\* which the first response of each identifier arrived.
C11_DistinctInArrivalOrder ==
  /\ Distinct(IdsOf(scans[1].devices))
  /\ IdsOf(scans[1].devices) = FirstIds(received)
  /\ cache.set => (Distinct(IdsOf(cache.devices)) /\ IdsOf(cache.devices) = FirstIds(received))
  /\ scans[1].status = "resolved" =>
       /\ IdsOf(call[1].lan) = FirstIds(received)
       /\ IdsOf(call[1].result) = FirstIds(received)

C11_Witness ==
  /\ received = <<ScanB, ScanA1, ScanA2>>
  /\ cache.set /\ IdsOf(cache.devices) = <<"11:22:33:44:55:66", "AA:BB:CC:DD:EE:FF">>
  /\ call[1].status = "resolved" /\ Len(call[1].result) = 2

\* not a scan response: the datagram does not parse, has no msg object, has
\* another command tag than scan, or has no data object
NotScanResponse(m) == ~(Tagged(m, "scan") /\ Has(m.value.msg, "data"))

\* C12: a datagram that is not a scan response changes nothing when it arrives
\* on the listener: the scan stays pending with its listener open, its timer
\* armed and its list as it was.  While the window is open the scan is never
\* rejected, and when the timer fires it resolves with one device per
\* identifier of the scan responses received, and nothing else.
C12_MalformedDropped ==
  /\ [][\A m \in ScanDatagrams :
          (NotScanResponse(m) /\ received' = Append(received, m)) =>
             (scans' = scans /\ cache' = cache /\ call' = call /\ pending' = pending)]_vars
  /\ [](/\ scans[1].status \in {"pending", "resolved"}
        /\ scans[1].status = "pending" =>
             (scans[1].listener = "open" /\ scans[1].timer = DISCOVERY_TIMEOUT_MS)
        /\ scans[1].status = "resolved" =>
             /\ call[1].status = "resolved"
             /\ Len(call[1].result) = Cardinality(ReceivedIds)
             /\ {call[1].result[i].device : i \in 1..Len(call[1].result)} = ReceivedIds)

C12_Witness ==
  /\ received = <<NotJson, ScanA1, ScanNoData>>
  /\ scans[1].status = "resolved" /\ call[1].status = "resolved"
  /\ Len(call[1].result) = 1 /\ call[1].result[1].device = "AA:BB:CC:DD:EE:FF"

\* C13: once a scan has settled its listener and its sender are closed and its
\* timer is cancelled, and once a call has settled its own socket is closed
\* and its timer is cancelled: no socket is open after its operation settled.
C13_ClosedWhenSettled ==
  /\ \A s \in ScanIds : scans[s].status \in {"rejected", "resolved"} =>
       /\ scans[s].listener = "closed"
       /\ scans[s].sender # "open"
       /\ scans[s].timer = NoTimer
  /\ \A c \in CallIds : Settled(c) =>
       /\ call[c].sock # "open"
       /\ call[c].timer = NoTimer

\* C14: a controlDevice call sends at most one datagram and holds its socket
\* open only while the send callback is outstanding; the step in which the
\* send callback runs closes the socket and settles the call, resolving it
\* when the send succeeded and rejecting it with the send error otherwise.
C14_FireAndForget ==
  /\ [](\A c \in CallIds : call[c].op = "controlDevice" =>
          /\ call[c].sent <= 1
          /\ call[c].timer = NoTimer /\ ~call[c].bindCb
          /\ call[c].sock = "open" <=> call[c].sendCb
          /\ call[c].sendCb => (call[c].status = "pending" /\ call[c].sent = 1)
          /\ call[c].status = "resolved" => (call[c].sent = 1 /\ call[c].sock = "closed"))
  /\ [][\A c \in CallIds :
          (call[c].op = "controlDevice" /\ call[c].sendCb /\ ~call'[c].sendCb) =>
             /\ call'[c].sock = "closed" /\ call'[c].sent = 1
             /\ \/ call'[c].status = "resolved"
                \/ call'[c].status = "rejected" /\ call'[c].error = TransportError]_vars

C14_Witness ==
  \E c, d \in CallIds :
    /\ call[c].op = "controlDevice" /\ call[c].status = "resolved"
    /\ call[c].sent = 1 /\ call[c].sock = "closed"
    /\ call[d].op = "controlDevice" /\ call[d].status = "rejected"
    /\ call[d].error = TransportError /\ call[d].sent = 1 /\ call[d].sock = "closed"

\* the address the discovery result records for a device identifier
RecordedIp(id) ==
  CASE id = "AA:BB:CC:DD:EE:FF" -> "10.0.0.5"
    [] id = "11:22:33:44:55:66" -> "10.0.0.7"
    [] OTHER -> Undefined

\* C15: a command that has been sent went to the address the discovery result
\* records for its device, on port 4003; a turn command was sent as
\* {"msg":{"cmd":"turn","data":{"value":1}}} for the value on and with value 0
\* for the value off.
C15_TurnToRecordedAddress ==
  \A c \in CallIds : (call[c].op = "controlDevice" /\ call[c].sent > 0) =>
    /\ call[c].sentPort = 4003
    /\ call[c].sentTo = RecordedIp(call[c].device)
    /\ call[c].sentTo # Undefined
    /\ call[c].cmd.name = "turn" =>
         call[c].sentMsg =
           [msg |-> [cmd |-> "turn",
                     data |-> [value |-> IF call[c].cmd.value = "on" THEN 1 ELSE 0]]]
    /\ (call[c].cmd.name = "turn" /\ call[c].cmd.value = "on") =>
         call[c].sentMsg = [msg |-> [cmd |-> "turn", data |-> [value |-> 1]]]
    /\ (call[c].cmd.name = "turn" /\ call[c].cmd.value = "off") =>
         call[c].sentMsg = [msg |-> [cmd |-> "turn", data |-> [value |-> 0]]]

C15_Witness ==
  \E c, d \in CallIds :
    /\ call[c].cmd.name = "turn" /\ call[c].cmd.value = "on"
    /\ call[c].device = "11:22:33:44:55:66"
    /\ call[c].status = "resolved" /\ call[c].sentTo = "10.0.0.7"
    /\ call[d].cmd.name = "turn" /\ call[d].cmd.value = "off"
    /\ call[d].device = "AA:BB:CC:DD:EE:FF"
    /\ call[d].status = "resolved" /\ call[d].sentTo = "10.0.0.5"

ZeroColor == [r |-> 0, g |-> 0, b |-> 0]

\* C16: a color command is sent as the combined command colorwc carrying the
\* given triple and colorTemInKelvin 0, a colorTem command as colorwc carrying
\* the colour {r:0,g:0,b:0} and the given Kelvin value, and these are the only
\* commands sent as colorwc.
C16_CombinedColorCommand ==
  \A c \in CallIds : (call[c].op = "controlDevice" /\ call[c].sent > 0) =>
    /\ call[c].cmd.name = "color" =>
         call[c].sentMsg = [msg |-> [cmd |-> "colorwc",
                                     data |-> [color |-> call[c].cmd.value,
                                               colorTemInKelvin |-> 0]]]
    /\ call[c].cmd.name = "colorTem" =>
         call[c].sentMsg = [msg |-> [cmd |-> "colorwc",
                                     data |-> [color |-> ZeroColor,
                                               colorTemInKelvin |-> call[c].cmd.value]]]
    /\ call[c].sentMsg.msg.cmd = "colorwc" <=> call[c].cmd.name \in {"color", "colorTem"}

C16_Witness ==
  \E c, d \in CallIds :
    /\ call[c].cmd.name = "color" /\ call[c].status = "resolved"
    /\ call[c].sentMsg.msg.data.color = [r |-> 255, g |-> 0, b |-> 128]
    /\ call[c].sentMsg.msg.data.colorTemInKelvin = 0
    /\ call[d].cmd.name = "colorTem" /\ call[d].status = "resolved"
    /\ call[d].sentMsg.msg.data.color = ZeroColor
    /\ call[d].sentMsg.msg.data.colorTemInKelvin = 4000

\* a colour command that the v2 backend has sent
SentV2Color(c) ==
  /\ call[c].backend = "v2" /\ call[c].op = "controlDevice"
  /\ call[c].cmd.name = "color" /\ call[c].sent = 1

\* C17: the v2 backend sends a colour command as the colorRgb capability whose
\* value is r*65536 + g*256 + b, a number of 0..16777215; for {255,128,0} the
\* value is 16744448.
C17_PackedColor ==
  \A c \in CallIds : SentV2Color(c) =>
    LET rgb == call[c].cmd.value
        capability == call[c].body.payload.capability
    IN /\ capability.type = "devices.capabilities.color_setting"
       /\ capability.instance = "colorRgb"
       /\ capability.value = rgb.r * 65536 + rgb.g * 256 + rgb.b
       /\ capability.value \in 0..16777215
       /\ rgb = [r |-> 255, g |-> 128, b |-> 0] => capability.value = 16744448

C17_Witness ==
  /\ SentV2Color(1)
  /\ call[1].cmd.value = [r |-> 255, g |-> 128, b |-> 0]
  /\ call[1].body.payload.capability.value = 16744448
  /\ call[1].status = "resolved"

\* C18: a state query answered after the cloud accepted a colour command of
\* the v2 backend, and so answered with the packed integer that command sent,
\* decodes it to exactly the {r,g,b} of the command.
C18_ColorRoundTrip ==
  [][(/\ SentV2Color(1) /\ call[1].status = "resolved"
      /\ call[2].op = "getDeviceState" /\ call[2].status = "pending"
      /\ call'[2].status = "resolved")
     => /\ Len(call'[2].result.properties) = 2
        /\ call'[2].result.properties[2] = [color |-> call[1].cmd.value]]_vars

C18_Witness ==
  /\ SentV2Color(1) /\ call[1].status = "resolved"
  /\ call[1].cmd.value = [r |-> 1, g |-> 255, b |-> 128]
  /\ call[2].op = "getDeviceState" /\ call[2].status = "resolved"
  /\ call[2].result.properties[2].color = [r |-> 1, g |-> 255, b |-> 128]

AbstractNames == {"turn", "brightness", "color", "colorTem"}

\* C19: on every backend a controlDevice call whose command name is none of
\* turn, brightness, color and colorTem is rejected and transmits nothing, and
\* a call with one of the four names is not rejected for its name.
C19_UnknownCommandRejected ==
  \A c \in CallIds : call[c].op = "controlDevice" =>
    /\ call[c].cmd.name \notin AbstractNames =>
         (call[c].status = "rejected" /\ call[c].sent = 0)
    /\ call[c].cmd.name \in AbstractNames => call[c].error # "unknowncmd"

\* the backend argument of a tool call is unset
Unset(arg) == arg = Undefined \/ arg = ""

SceneTools == {"list_scenes", "list_diy_scenes", "activate_scene"}

\* the call made no backend I/O and ended with a failure result
FailedWithoutBackend(c) ==
  call[c].status = "returned" /\ ~call[c].result.ok /\ call[c].calls = <<>>

\* the scene methods a scene tool call needs on the backend
NeededSceneMethods(c) ==
  IF call[c].tool = "list_scenes" THEN {"listScenes"}
  ELSE IF call[c].tool = "list_diy_scenes" THEN {"listDiyScenes"}
  ELSE {"activateScene"}
         \cup (IF call[c].args.scene_type = "diy" THEN {"listDiyScenes"} ELSE {})
         \cup (IF call[c].args.scene_type = "light" THEN {"listScenes"} ELSE {})

\* the arguments of a scene tool call pass the handler's own validation
SceneArgsValid(c) ==
  /\ ~Unset(call[c].args.device_id) /\ ~Unset(call[c].args.model)
  /\ call[c].tool = "activate_scene" =>
       (~Unset(call[c].args.scene_name) /\ call[c].args.scene_type \in {"light", "diy"})

DeviceTools == {"get_device_state", "set_power", "set_brightness", "set_color",
                "set_color_temperature", "list_scenes", "list_diy_scenes", "activate_scene"}

\* C22: a call of a device-targeting tool whose device_id or model is missing
\* or empty ends with a failure result, and neither router.get nor any backend
\* method was called.
C22_DeviceRequired ==
  \A c \in CallIds :
    (call[c].tool \in DeviceTools /\ (Unset(call[c].args.device_id) \/ Unset(call[c].args.model))) =>
      (FailedWithoutBackend(c) /\ call[c].gets = <<>>)

C22_Witness ==
  \E c \in CallIds :
    /\ call[c].tool = "set_color" /\ call[c].args.device_id = DeviceId /\ call[c].args.model = ""
    /\ call[c].args.r = Integer(0) /\ call[c].args.g = Integer(255) /\ call[c].args.b = Integer(0)
    /\ call[c].args.backend = "v2"
    /\ FailedWithoutBackend(c) /\ call[c].gets = <<>>

ControlTools == {"set_power", "set_brightness", "set_color", "set_color_temperature"}

InRange(value, min, max) == value.kind = "integer" /\ value.n >= min /\ value.n <= max

\* the value argument of a control tool call is valid
ValidValue(c) ==
  CASE call[c].tool = "set_power" -> call[c].args.state \in {"on", "off"}
    [] call[c].tool = "set_brightness" -> InRange(call[c].args.brightness, 0, 100)
    [] call[c].tool = "set_color" ->
         InRange(call[c].args.r, 0, 255) /\ InRange(call[c].args.g, 0, 255)
           /\ InRange(call[c].args.b, 0, 255)
    [] call[c].tool = "set_color_temperature" -> InRange(call[c].args.temperature, 2000, 9000)

\* C23: a control tool call reaches the backend's controlDevice only with a
\* valid value (state on or off, brightness an integer in 0..100, r, g and b
\* integers in 0..255, temperature an integer in 2000..9000); with a missing,
\* non-integer or out-of-range value it ends with a failure result and no
\* backend call.
C23_ValidatedBeforeControl ==
  \A c \in CallIds : call[c].tool \in ControlTools =>
    /\ (\E i \in 1..Len(call[c].calls) : call[c].calls[i].method = "controlDevice") => ValidValue(c)
    /\ ~ValidValue(c) => FailedWithoutBackend(c)

C23_Witness ==
  \E c \in CallIds :
    /\ call[c].tool = "set_color" /\ ~Unset(call[c].args.device_id) /\ ~Unset(call[c].args.model)
    /\ call[c].args.r = Integer(0) /\ call[c].args.g = Integer(255) /\ call[c].args.b = Integer(256)
    /\ FailedWithoutBackend(c)
    /\ call[c].result.message = <<"b", "must be between min and max">>

\* the tool call began
Called(c) == call[c].tool # "none"

InvalidBackendResult(c) ==
  /\ FailedWithoutBackend(c) /\ call[c].gets = <<>>
  /\ call[c].result.message = <<"Invalid backend", call[c].args.backend>>

\* C24 as stated, for every tool: a backend argument that is present and not
\* v1, v2 or lan ends the call with the Invalid backend failure before
\* router.get; without the argument router.get receives no name, and with a
\* valid name it receives that name.
C24_BackendArgument ==
  \A c \in CallIds : Called(c) =>
    /\ call[c].args.backend \notin {Undefined, "v1", "v2", "lan"} => InvalidBackendResult(c)
    /\ call[c].args.backend = Undefined =>
         \A i \in 1..Len(call[c].gets) : call[c].gets[i] = Undefined
    /\ call[c].args.backend \in {"v1", "v2", "lan"} =>
         \A i \in 1..Len(call[c].gets) : call[c].gets[i] = call[c].args.backend

\* the tools whose handlers read the backend argument
RoutedTools == {"list_devices", "get_device_state", "set_power", "set_brightness",
                "set_color", "set_color_temperature"}

\* the device and value arguments pass the checks made before parseBackend
PassesValidation(c) ==
  /\ call[c].tool \in DeviceTools =>
       (~Unset(call[c].args.device_id) /\ ~Unset(call[c].args.model))
  /\ call[c].tool \in ControlTools => ValidValue(c)

\* C24 (amended): for the six tools that take a backend argument, a non-empty
\* argument other than v1, v2 and lan never reaches router.get or a backend and
\* the call fails, with the Invalid backend message when its device and value
\* arguments are valid; a missing or empty argument makes router.get receive
\* no name, a valid one exactly that name, once per call.  The scene tools do
\* not read the argument and ask for v2.
C24_BackendArgumentOfRoutedTools ==
  \A c \in CallIds : Called(c) =>
    /\ call[c].tool \in RoutedTools =>
         /\ (~Unset(call[c].args.backend) /\ call[c].args.backend \notin {"v1", "v2", "lan"}) =>
              /\ FailedWithoutBackend(c) /\ call[c].gets = <<>>
              /\ PassesValidation(c) => InvalidBackendResult(c)
         /\ Unset(call[c].args.backend) =>
              /\ call[c].gets \in {<<>>, <<Undefined>>}
              /\ PassesValidation(c) => call[c].gets = <<Undefined>>
         /\ call[c].args.backend \in {"v1", "v2", "lan"} =>
              /\ call[c].gets \in {<<>>, <<call[c].args.backend>>}
              /\ PassesValidation(c) => call[c].gets = <<call[c].args.backend>>
    /\ call[c].tool \in SceneTools => call[c].gets \in {<<>>, <<"v2">>}

C24_Witness ==
  \E c \in CallIds :
    /\ call[c].tool = "set_power" /\ call[c].args.backend = "v3"
    /\ call[c].args.state = "on" /\ PassesValidation(c)
    /\ InvalidBackendResult(c)

\* the backend methods a call invoked, in order
Methods(c) == [i \in 1..Len(call[c].calls) |-> call[c].calls[i].method]

ListMethod(c) == IF call[c].args.scene_type = "diy" THEN "listDiyScenes" ELSE "listScenes"

\* the requested scene name is in the list the backend returned
Listed(c) == \E j \in 1..Len(call[c].scenes) : call[c].scenes[j].name = call[c].args.scene_name

NotFound(c) ==
  <<IF call[c].args.scene_type = "diy" THEN "DIY scene" ELSE "Scene",
    call[c].args.scene_name, "not found">>

\* C25: activate_scene calls the list method of the requested scene type first
\* and activateScene only after it, and only when a scene with exactly the
\* requested name is in the returned list; when the name is not in the list the
\* call ends with the not-found failure and activateScene is not called; a
\* scene_type other than light and diy fails before the router or any backend
\* method is called.
C25_ActivateListedOnly ==
  \A c \in CallIds : call[c].tool = "activate_scene" =>
    /\ Methods(c) \in {<<>>, <<ListMethod(c)>>, <<ListMethod(c), "activateScene">>}
    /\ Len(call[c].calls) = 2 => Listed(c)
    /\ (call[c].status = "returned" /\ Len(call[c].calls) = 1) =>
         (~Listed(c) /\ ~call[c].result.ok /\ call[c].result.message = NotFound(c))
    /\ (call[c].status = "returned" /\ call[c].result.ok) => Len(call[c].calls) = 2
    /\ call[c].args.scene_type \notin {"light", "diy"} =>
         (FailedWithoutBackend(c) /\ call[c].gets = <<>>)

C25_Witness ==
  \E c \in CallIds :
    /\ call[c].tool = "activate_scene" /\ call[c].args.scene_type = "light"
    /\ call[c].args.scene_name = "Nonexistent" /\ Len(call[c].scenes) = 2
    /\ Methods(c) = <<"listScenes">>
    /\ call[c].status = "returned" /\ call[c].result.message = NotFound(c)

\* the value the backend listed for the requested scene name
ListedValue(c) ==
  call[c].scenes[CHOOSE j \in 1..Len(call[c].scenes) :
                   call[c].scenes[j].name = call[c].args.scene_name].value

\* C26: when activate_scene found the named scene, the capability the v2
\* backend posts for it is a dynamic_scene capability whose instance is
\* lightScene for scene_type light and diyScene for scene_type diy and whose
\* value is the value listed for that scene name.
C26_ActivatedCapability ==
  \A c \in CallIds :
    (call[c].tool = "activate_scene" /\ Len(call[c].calls) = 2) =>
      /\ call[c].posted.type = "devices.capabilities.dynamic_scene"
      /\ call[c].posted.instance =
           (IF call[c].args.scene_type = "diy" THEN "diyScene" ELSE "lightScene")
      /\ call[c].posted.value = ListedValue(c)

\* ---- the request dispatcher
\* the positions in stdout of the responses that carry an id
Responses(id) == {i \in 1..Len(stdout) : stdout[i].id = id}

\* C27: when a backend method a handler awaits fails, the handler calls no
\* backend method again and awaits nothing more, its promise is rejected with
\* that same error, and stdout holds exactly one response for the request id
\* of the tool call: a result with isError true whose text is the error's
\* message.
C27_BackendErrorPropagates ==
  \A c \in CallIds : \A i \in 1..Len(call[c].outcomes) :
    call[c].outcomes[i] # "resolved" =>
      /\ Len(call[c].outcomes) = i /\ Len(call[c].calls) = i
      /\ call[c].status = "rejected" /\ call[c].error = call[c].outcomes[i]
      /\ Cardinality(Responses(call[c].id)) = 1
      /\ \A k \in Responses(call[c].id) :
           /\ stdout[k].kind = "result" /\ stdout[k].isError
           /\ stdout[k].text = <<call[c].outcomes[i]>>

C27_Witness ==
  \E c \in CallIds :
    /\ call[c].tool = "activate_scene" /\ call[c].outcomes = <<"resolved", "API failure">>
    /\ call[c].status = "rejected" /\ call[c].error = "API failure"
    /\ \E k \in Responses(call[c].id) : stdout[k].isError /\ stdout[k].text = <<"API failure">>

\* C28: every response on stdout either carries the id of a request that was
\* read and that has this id, or is the parse error (id null) of a line that
\* was not a request; no request has more than one response; a request
\* without an id has none and starts no handler; a task writes at most one
\* response and never rewrites an earlier one.
C28_OneResponsePerRequest ==
  /\ [](/\ \A i \in 1..Len(stdout) :
             IF stdout[i].id = NullId
               THEN stdout[i].kind = "error" /\ stdout[i].code = -32700
               ELSE /\ stdout[i].id \in CallIds
                    /\ call[stdout[i].id].line = "request"
                    /\ call[stdout[i].id].id = stdout[i].id
        /\ \A c \in CallIds : Cardinality(Responses(c)) <= 1
        /\ Cardinality(Responses(NullId))
             = Cardinality({c \in CallIds : call[c].line \in {"garbage", "null"}})
        /\ \A c \in CallIds : (call[c].line = "request" /\ call[c].id = NullId) =>
             (call[c].tool = "none" /\ call[c].status = "idle"))
  /\ [][/\ Len(stdout') <= Len(stdout) + 1
        /\ SubSeq(stdout', 1, Len(stdout)) = stdout]_vars

C28_Witness ==
  /\ Len(stdout) = 2
  /\ stdout[1].id = 2 /\ stdout[2].id = 1
  /\ call[1].method = "tools/call" /\ call[2].method = "tools/call"
  /\ call[1].tool = "activate_scene" /\ call[2].tool = "set_power"

\* ---- the lifetime of the cache entry
\* the collection window of scan s elapses in this step and the scan resolves
WindowElapses(s) == scans[s].status = "pending" /\ scans'[s].status = "resolved"

\* C29: the collection window of a scan is armed 3 s ahead, the scan resolves
\* at the moment it elapses, and the entry written then expires 5 minutes
\* after that moment; so a call issued after the first scan completed and
\* less than 5 minutes later is served from the cache without a new scan,
\* also when more than 5 minutes have passed since that scan was started.
C29_ExpiryFromCompletion ==
  /\ [][\A s \in ScanIds :
          (scans[s].timer = NoTimer /\ scans'[s].timer # NoTimer) =>
            scans'[s].timer = now + DISCOVERY_TIMEOUT_MS]_vars
  /\ [][\A s \in ScanIds : WindowElapses(s) =>
          /\ now = scans[s].timer
          /\ cache'.set /\ cache'.expiry = now + CACHE_TTL_MS]_vars
  /\ [][\A c \in CallIds :
          (/\ Issued(c)
           /\ Len(scans) = 1 /\ scans[1].status = "resolved"
           /\ now < DISCOVERY_TIMEOUT_MS + CACHE_TTL_MS) =>
            /\ scans' = scans /\ pending' = pending
            /\ ~call'[c].awaiting /\ call'[c].scan = 0
            /\ call'[c].lan = scans[1].devices]_vars

C29_Witness ==
  \E c \in CallIds :
    /\ Len(scans) = 1 /\ scans[1].status = "resolved"
    /\ cache.expiry = DISCOVERY_TIMEOUT_MS + CACHE_TTL_MS
    /\ call[c].op = "getDeviceState" /\ call[c].scan = 0
    /\ call[c].timer # NoTimer /\ call[c].timer > CACHE_TTL_MS
    /\ now >= CACHE_TTL_MS /\ now < cache.expiry

\* C30: the cache entry changes only in the step in which the collection
\* window of a pending scan elapses, and then devices and expiry are replaced
\* together by that scan's list and the time of the step plus 5 minutes; a
\* scan that is rejected, a datagram, a state query or a control command and
\* their errors and timeouts leave it as it was, and once a scan has resolved
\* its list, which the entry holds, receives no further datagram.
C30_CacheReplacedWholesale ==
  /\ [][cache' # cache => \E s \in ScanIds : WindowElapses(s)]_vars
  /\ [][\A s \in ScanIds : WindowElapses(s) =>
          cache' = [set |-> TRUE, devices |-> scans[s].devices,
                    expiry |-> now + CACHE_TTL_MS]]_vars
  /\ [][\A s \in ScanIds : scans[s].status # "pending" =>
          /\ scans'[s].status = scans[s].status
          /\ scans'[s].devices = scans[s].devices
          /\ scans'[s].listener = "closed"]_vars
  /\ [](cache.set =>
          \E s \in ScanIds : scans[s].status = "resolved" /\ cache.devices = scans[s].devices)

C30_Witness ==
  /\ Len(scans) = 2
  /\ scans[1].status = "resolved" /\ scans[2].status = "rejected"
  /\ Len(scans[2].devices) > 0 /\ scans[2].devices # scans[1].devices
  /\ cache = [set |-> TRUE, devices |-> scans[1].devices,
              expiry |-> DISCOVERY_TIMEOUT_MS + CACHE_TTL_MS]

\* ---- what callers can reach
\* the devices the scan recorded, as the datagrams reported them
RecordedDevices ==
  <<[device |-> "AA:BB:CC:DD:EE:FF", ip |-> "10.0.0.5", sku |-> "H6160"],
    [device |-> "11:22:33:44:55:66", ip |-> "10.0.0.7", sku |-> "H6160"]>>

\* the list names the recorded devices, in order, with the recorded values of
\* the given fields
Lists(list, idField, skuField) ==
  /\ Len(list) = Len(RecordedDevices)
  /\ \A i \in 1..Len(list) :
       /\ Has(list[i], idField) /\ Has(list[i], skuField)
       /\ list[i][idField] = RecordedDevices[i].device
       /\ list[i][skuField] = RecordedDevices[i].sku

\* C31: the list a listDevices call returns shares no object with the
\* backend, so whatever its caller does to it, the cache entry keeps the
\* devices and addresses the scan recorded, every listDevices call resolves
\* with those devices, no state or control call for one of them fails with
\* device-not-found, and every datagram goes to the recorded address.
C31_CallersGetCopies ==
  /\ [](\A c \in CallIds : call[c].shared = {})
  /\ [](/\ cache.set /\ Lists(cache.devices, "device", "sku")
        /\ \A i \in 1..Len(cache.devices) : cache.devices[i].ip = RecordedDevices[i].ip)
  /\ [](\A c \in CallIds : \A i \in 1..Len(RecordedDevices) :
          (call[c].op \in ControlOps /\ call[c].device = RecordedDevices[i].device) =>
             /\ call[c].error # "notfound"
             /\ call[c].sent > 0 => call[c].sentTo = RecordedDevices[i].ip)
  /\ [][\A c \in CallIds :
          (call'[c].op = "listDevices" /\ call[c].status # "resolved"
           /\ call'[c].status = "resolved") => Lists(call'[c].result, "device", "model")]_vars
  /\ [][\A c \in CallIds :
          (call[c].status = "resolved" /\ call'[c].result # call[c].result) =>
             /\ cache' = cache /\ scans' = scans
             /\ \A d \in CallIds : d # c => call'[d] = call[d]]_vars

C31_Witness ==
  /\ call[1].op = "listDevices" /\ call[1].status = "resolved" /\ call[1].result = <<>>
  /\ call[2].op = "controlDevice" /\ call[2].status = "resolved"
  /\ call[2].sent = 1 /\ call[2].sentTo = "10.0.0.5"

\* C32: every state query and control command has a socket of its own: a step
\* that changes one call (its bind or send callback, a datagram on its socket,
\* its timer, an error of its socket) leaves every other call whose socket is
\* open as it was, neither settled nor closed, whether the two calls address
\* the same device or different ones.
C32_IndependentCalls ==
  [][\A c, d \in CallIds :
       (c # d /\ call[d].sock = "open" /\ call'[c] # call[c]) => call'[d] = call[d]]_vars

C32_Witness ==
  \E c, d \in CallIds :
    /\ call[c].op = "getDeviceState" /\ call[d].op = "getDeviceState"
    /\ call[c].device # call[d].device
    /\ call[c].status = "resolved" /\ call[c].sock = "closed"
    /\ call[d].status = "pending" /\ call[d].sock = "open"
    /\ ~call[d].bindCb /\ call[d].timer # NoTimer

\* C33: while the collection window is open the scan and its caller stay
\* pending, however many responses have arrived; the scan resolves only in a
\* step taken when its timer is due, 3000 ms after it was armed; and the
\* result then names every identifier a response carried before that step.
C33_NoEarlyExit ==
  /\ []((now < DISCOVERY_TIMEOUT_MS) =>
          /\ scans[1].status = "pending" /\ call[1].status = "pending"
          /\ scans[1].listener = "open" /\ pending = 1 /\ ~cache.set)
  /\ [][(scans[1].status # scans'[1].status \/ call[1].status # call'[1].status) =>
          /\ now = DISCOVERY_TIMEOUT_MS /\ scans[1].timer = now
          /\ scans'[1].status = "resolved" /\ call'[1].status = "resolved"
          /\ received' = received
          /\ {call'[1].result[i].device : i \in 1..Len(call'[1].result)} = ReceivedIds]_vars

C33_Witness ==
  /\ received = <<ScanA1, ScanB, ScanA2>>
  /\ now = DISCOVERY_TIMEOUT_MS
  /\ scans[1].status = "resolved" /\ call[1].status = "resolved"
  /\ IdsOf(call[1].result) = <<"AA:BB:CC:DD:EE:FF", "11:22:33:44:55:66">>

\* ---- the state a query returns
\* one single-key property for each of the four fields the status reports,
\* in the fixed order
ReportedProperties(status) ==
  (IF Has(status, "onOff")
     THEN <<[powerState |-> IF status.onOff = 1 THEN "on" ELSE "off"]>> ELSE <<>>)
  \o (IF Has(status, "brightness") THEN <<[brightness |-> status.brightness]>> ELSE <<>>)
  \o (IF Has(status, "color") THEN <<[color |-> status.color]>> ELSE <<>>)
  \o (IF Has(status, "colorTemInKelvin")
        THEN <<[colorTem |-> status.colorTemInKelvin]>> ELSE <<>>)

\* C34: when a status response resolves a state query, the state holds one
\* property for exactly those of onOff, brightness, color, colorTemInKelvin
\* that the response reported, values of 0 included, in the order powerState,
\* brightness, color, colorTem.
C34_ReportedProperties ==
  [][\A c \in CallIds, m \in Datagrams :
       (/\ Tagged(m, "devStatus") /\ Has(m.value.msg, "data")
        /\ QueryMessage(c, m) /\ call'[c].status = "resolved")
       => call'[c].result.properties = ReportedProperties(m.value.msg.data)]_vars

\* ---- what a discovered device is made of
\* the device has an identifier, an address and a model, all taken from one
\* of the datagrams received
FullyParsed(dev) ==
  /\ dev.device # Undefined /\ dev.device # ""
  /\ dev.ip # Undefined /\ dev.sku # Undefined
  /\ \E i \in 1..Len(received) :
       /\ Tagged(received[i], "scan") /\ Has(received[i].value.msg, "data")
       /\ LET d == received[i].value.msg.data
          IN /\ Has(d, "device") /\ Has(d, "ip") /\ Has(d, "sku")
             /\ dev.device = d.device /\ dev.ip = d.ip /\ dev.sku = d.sku

\* C35: every device a scan has collected, and every device of the cache
\* entry and of the list handed to the caller, has a non-empty identifier, an
\* address and a model taken from one received scan response; a scan-tagged
\* datagram lacking one of the three adds no device.
C35_FullyParsedDevices ==
  /\ \A i \in 1..Len(scans[1].devices) : FullyParsed(scans[1].devices[i])
  /\ \A i \in 1..Len(cache.devices) : FullyParsed(cache.devices[i])
  /\ \A i \in 1..Len(call[1].lan) : FullyParsed(call[1].lan[i])

\* ---- the expiry of the cache entry
\* C36: a call issued when the time has reached the expiry of the cache entry
\* does not get the entry's list: it starts a scan, or joins the running one,
\* and waits; a call is served from the cache only while the time is before
\* the expiry; and a waiting call continues only with the list its scan
\* collected, or is rejected with that scan's error.
C36_NoStaleList ==
  /\ [][\A c \in CallIds : (Issued(c) /\ cache.set /\ now >= cache.expiry) =>
          /\ call'[c].status = "pending" /\ call'[c].awaiting /\ call'[c].lan = <<>>
          /\ pending' \in 1..Len(scans') /\ call'[c].scan = pending'
          /\ scans'[pending'].status = "pending"
          /\ IF pending = 0 THEN pending' = Len(scans) + 1 /\ Len(scans') = Len(scans) + 1
                            ELSE pending' = pending /\ scans' = scans]_vars
  /\ [][\A c \in CallIds : (Issued(c) /\ ~call'[c].awaiting) =>
          /\ cache.set /\ now < cache.expiry
          /\ call'[c].lan = cache.devices /\ call'[c].scan = 0]_vars
  /\ [][\A c \in CallIds : (call[c].awaiting /\ ~call'[c].awaiting) =>
          \/ /\ scans'[call[c].scan].status = "resolved"
             /\ call'[c].lan = scans[call[c].scan].devices
             /\ cache'.devices = call'[c].lan /\ now' < cache'.expiry
          \/ /\ scans'[call[c].scan].status = "rejected"
             /\ call'[c].status = "rejected" /\ call'[c].lan = <<>>]_vars

C36_Witness ==
  \E c \in CallIds :
    /\ Len(scans) = 2 /\ scans[2].status = "resolved" /\ scans[1].devices # scans[2].devices
    /\ now = 2 * DISCOVERY_TIMEOUT_MS + CACHE_TTL_MS
    /\ call[c].scan = 2 /\ ~call[c].awaiting /\ call[c].lan = scans[2].devices
    /\ cache.expiry = now + CACHE_TTL_MS

\* C37: when the window of a scan elapses with an empty list, the scan
\* resolves, the empty list becomes the cache entry with the usual lifetime
\* and its waiters continue with it; while that entry is fresh a call starts
\* no scan: listDevices resolves with the empty list at once, and a state
\* query or control command is rejected with device-not-found without
\* opening a socket or sending a datagram.
C37_EmptyListCached ==
  /\ [][\A s \in ScanIds : (WindowElapses(s) /\ scans[s].devices = <<>>) =>
          /\ cache' = [set |-> TRUE, devices |-> <<>>, expiry |-> now + CACHE_TTL_MS]
          /\ pending' = 0
          /\ \A c \in CallIds : (call[c].awaiting /\ call[c].scan = s) =>
               IF call[c].op = "listDevices"
               THEN call'[c].status = "resolved" /\ call'[c].result = <<>>
               ELSE /\ call'[c].status = "rejected" /\ call'[c].error = "notfound"
                    /\ call'[c].sock = "none" /\ call'[c].sent = 0]_vars
  /\ [][\A c \in CallIds :
          (Issued(c) /\ cache.set /\ cache.devices = <<>> /\ now < cache.expiry) =>
             /\ scans' = scans /\ pending' = pending /\ cache' = cache
             /\ call'[c].scan = 0 /\ ~call'[c].awaiting
             /\ IF call'[c].op = "listDevices"
                THEN call'[c].status = "resolved" /\ call'[c].result = <<>>
                ELSE /\ call'[c].status = "rejected" /\ call'[c].error = "notfound"
                     /\ call'[c].sock = "none" /\ call'[c].sent = 0]_vars

C37_Witness ==
  \E c \in CallIds :
    /\ Len(scans) = 1 /\ scans[1].status = "resolved" /\ scans[1].sent = 1
    /\ cache = [set |-> TRUE, devices |-> <<>>, expiry |-> DISCOVERY_TIMEOUT_MS + CACHE_TTL_MS]
    /\ now > CACHE_TTL_MS /\ now < cache.expiry
    /\ call[c].op = "controlDevice" /\ call[c].scan = 0
    /\ call[c].status = "rejected" /\ call[c].error = "notfound" /\ call[c].sent = 0

\* ---- cleanup and settling of a state query
\* C38: a state query whose socket has been closed and whose timer is not
\* armed has been resolved or rejected: cleanup never runs in a step that
\* leaves the call pending, whatever datagram arrives.
C38_CleanupSettles ==
  \A c \in CallIds :
    (call[c].op = "getDeviceState" /\ call[c].sock = "closed" /\ call[c].timer = NoTimer)
      => call[c].status # "pending"

\* ---- first outcome is final
\* C39: once a call is resolved or rejected its status, result and error never
\* change again, whatever datagram, timer or send callback comes later; once a
\* scan is resolved or rejected its status, error and list never change
\* again; a rejected scan has no timer armed, and the cache entry is written
\* and waiters are resumed with a list only in the step that resolves a
\* pending scan.
C39_FirstOutcomeFinal ==
  /\ [][\A c \in CallIds : call[c].status \in {"resolved", "rejected"} =>
          /\ call'[c].status = call[c].status
          /\ call'[c].result = call[c].result /\ call'[c].error = call[c].error]_vars
  /\ [][\A s \in ScanIds : scans[s].status \in {"resolved", "rejected"} =>
          /\ scans'[s].status = scans[s].status /\ scans'[s].error = scans[s].error
          /\ scans'[s].devices = scans[s].devices]_vars
  /\ [](\A s \in ScanIds : scans[s].status = "rejected" => scans[s].timer = NoTimer)
  /\ [][(cache' # cache \/ \E c \in CallIds : call[c].awaiting /\ call'[c].lan # <<>>) =>
          \E s \in ScanIds : scans[s].status = "pending" /\ scans'[s].status = "resolved"]_vars

C39_Witness ==
  \E c \in CallIds :
    /\ Len(scans) = 2
    /\ scans[1].status = "rejected" /\ scans[1].sent = 1 /\ now >= DISCOVERY_TIMEOUT_MS
    /\ call[c].op = "getDeviceState" /\ call[c].status = "resolved"
    /\ call[c].sock = "closed" /\ call[c].sendCb

\* ---- the listener on the fixed port
\* C40: at most one discovery listener is open at any time; an open listener
\* belongs to the scan that is pending and that the token names; and the
\* listener of every scan but the most recent one is closed, so a scan is
\* started only when the listeners of all earlier scans have been closed.
C40_OneListener ==
  /\ Cardinality({s \in ScanIds : scans[s].listener = "open"}) <= 1
  /\ \A s \in ScanIds : scans[s].listener = "open" =>
       (scans[s].status = "pending" /\ pending = s)
  /\ \A s \in ScanIds : s < Len(scans) => scans[s].listener = "closed"

C40_Witness ==
  /\ Len(scans) = 2
  /\ scans[1].status = "resolved" /\ scans[1].listener = "closed"
  /\ cache.set /\ now >= cache.expiry
  /\ scans[2].listener = "open" /\ ~scans[2].bindCb /\ scans[2].timer # NoTimer
  /\ \E c \in CallIds : call[c].op = "controlDevice" /\ call[c].scan = 1
====
